---------------------------- MODULE Spec2Model ----------------------------
(***************************************************************************)
(* A model of the financial-agent automation core: the instruction         *)
(* matcher (src/lib/instructions.ts), the task store and task runner       *)
(* (src/lib/embeddings.ts, lines 99-671), and the tool registry, executor  *)
(* and follow-up scheduling (src/lib/automation/poller.ts, lines 131-1131).*)
(*                                                                         *)
(* The module holds several specifications over one set of variables:      *)
(*   SpecTool     one call of executeAgentTool, step by step               *)
(*   SpecSched    one call of the scheduleFollowUpTask tool handler        *)
(*   SpecMatcher  evaluateInstructionsForEvent against the store           *)
(*   Spec         overlapping runners of processAgentTaskById              *)
(*   SpecCrash    the same runners, whose process may die mid-task         *)
(*   SpecSteps    the runner on tasks that already have finished steps     *)
(*   SpecCycle    one call of runAutomationCycle                           *)
(*   SpecDue      a cycle while tasks come due                             *)
(*   SpecStream   one call of runModelIteration                            *)
(*   SpecCrm      calls of the createOrUpdateHubspotContact tool           *)
(*   SpecApi      the instruction endpoints and the storeInstruction tool  *)
(*   SpecMerge    one call of mergeTaskMetadata                            *)
(*   SpecRoute    one request to POST /api/automation/run                  *)
(* A specification leaves the variables of the others at their initial     *)
(* values.                                                                 *)
(***************************************************************************)
EXTENDS Integers, Sequences, FiniteSets, TLC

VARIABLES
    (* executeAgentTool: one call *)
    toolCall,       \* the call's inputs: name, rawArguments, the handler's outcome
    toolPc,         \* position inside executeAgentTool
    toolLocals,     \* tool / parsedInput / validatedInput
    toolTrace,      \* the phases the call has passed, in order
    toolReturn,     \* the returned envelope, or NotReturned
    toolThrown,     \* TRUE when an exception escaped executeAgentTool
    (* the clock and the store *)
    clock,          \* what new Date() reads
    tasks,          \* AgentTask rows, in creation order; a task's id is its position
    steps,          \* TaskStep rows, in creation order
    contexts,       \* TaskContext rows
    instructions,   \* Instruction rows
    evaluations,    \* InstructionEvaluation rows
    (* the scheduleFollowUpTask tool handler: one call *)
    schedCall,      \* the validated input and the invocation context
    schedReturn,    \* the handler's result, or NotReturned
    (* evaluateInstructionsForEvent: the calls, one at a time *)
    matcher,        \* the running call: position, locals, the open transaction
    eventsSeen,     \* how many calls have been started
    (* processAgentTaskById: overlapping runners *)
    runners,        \* each runner's position and locals
    claimed,        \* per task id, the runners whose claim affected a row, in order
    effects,        \* the model rounds and tool handler calls made, by task and runner
    (* runAutomationCycle: the users and credentials it reads, one call *)
    accounts, cycle,
    (* runModelIteration: one call, and the chunks its stream has yielded *)
    modelRun, chunksSeen,
    (* createOrUpdateHubspotContact: HubSpot's contacts and the local table, *)
    (* one call and the calls made                                           *)
    crm, crmCall, crmCalls,
    (* the instruction endpoints: the response to the last request *)
    apiResponse,
    (* mergeTaskMetadata: one call *)
    mergeCall,
    (* POST /api/automation/run: one request and its response *)
    request

toolVars == <<toolCall, toolPc, toolLocals, toolTrace, toolReturn, toolThrown>>
storeVars == <<tasks, steps, contexts, instructions, evaluations>>
schedVars == <<schedCall, schedReturn>>
matcherVars == <<matcher, eventsSeen>>
runnerVars == <<runners, claimed, effects>>

cycleVars == <<accounts, cycle>>
streamVars == <<modelRun, chunksSeen>>
crmVars == <<crm, crmCall, crmCalls>>

notTool == <<request, mergeCall, apiResponse, crmVars, clock, storeVars, schedVars, matcherVars, runnerVars, cycleVars, streamVars>>
notSched == <<request, mergeCall, apiResponse, crmVars, toolVars, matcherVars, runnerVars, cycleVars, streamVars>>
notMatcher == <<request, mergeCall, apiResponse, crmVars, toolVars, schedVars, runnerVars, cycleVars, streamVars>>
notRunner == <<request, mergeCall, apiResponse, crmVars, toolVars, schedVars, matcherVars, cycleVars, streamVars>>
notCycle == <<request, mergeCall, apiResponse, crmVars, toolVars, schedVars, matcherVars, streamVars>>
notStream == <<request, mergeCall, apiResponse, toolVars, clock, storeVars, schedVars, matcherVars, runnerVars, cycleVars, crmVars>>
notApi == <<request, mergeCall, toolVars, clock, schedVars, matcherVars, runnerVars, cycleVars, streamVars, crmVars>>
notCrm == <<request, mergeCall, apiResponse, toolVars, schedVars, matcherVars, runnerVars, cycleVars, streamVars>>
notRoute == <<mergeCall, apiResponse, crmVars, toolVars, schedVars, matcherVars, streamVars>>
notMerge == <<request, apiResponse, toolVars, clock, storeVars, schedVars, matcherVars, runnerVars, cycleVars, streamVars, crmVars>>

NULL == [t |-> "null"]
NotReturned == [t |-> "not_returned"]

(***************************************************************************)
(* JSON values.  A JSON object keeps its entries in insertion order, as a  *)
(* JavaScript object does.                                                 *)
(***************************************************************************)
JNull == NULL
JBool(b) == [t |-> "boolean", b |-> b]
JNum(n) == [t |-> "number", n |-> n]
JStr(s) == [t |-> "string", s |-> s]
JArr(items) == [t |-> "array", items |-> items]
JObj(entries) == [t |-> "object", entries |-> entries]
Entry(k, v) == [k |-> k, v |-> v]

HasKey(obj, key) == \E i \in 1..Len(obj.entries) : obj.entries[i].k = key
GetKey(obj, key) ==
    obj.entries[CHOOSE i \in 1..Len(obj.entries) :
        /\ obj.entries[i].k = key
        /\ \A j \in (i+1)..Len(obj.entries) : obj.entries[j].k # key].v

RECURSIVE JoinStrings(_, _)
JoinStrings(parts, sep) ==
    IF Len(parts) = 0 THEN ""
    ELSE IF Len(parts) = 1 THEN parts[1]
    ELSE parts[1] \o sep \o JoinStrings(Tail(parts), sep)

(* JSON.stringify, on values whose strings need no escaping *)
RECURSIVE JSONStringify(_)
JSONStringify(v) ==
    CASE v.t = "null" -> "null"
      [] v.t = "boolean" -> IF v.b THEN "true" ELSE "false"
      [] v.t = "number" -> ToString(v.n)
      [] v.t = "string" -> "\"" \o v.s \o "\""
      [] v.t = "array" ->
            "[" \o JoinStrings([i \in 1..Len(v.items) |-> JSONStringify(v.items[i])], ",") \o "]"
      [] v.t = "object" ->
            "{" \o JoinStrings([i \in 1..Len(v.entries) |->
                    "\"" \o v.entries[i].k \o "\":" \o JSONStringify(v.entries[i].v)], ",") \o "}"

Whitespace == {" ", "\t", "\n"}

(* String.prototype.trim() leaves the empty string *)
IsBlank(s) == \A i \in 1..Len(s) : SubSeq(s, i, i) \in Whitespace


(***************************************************************************)
(* The input validators of the tool registry (zod schemas).  A field spec  *)
(* names the key, whether it is optional, and its checks; an issue is a    *)
(* message and whether it aborts the parse (a type mismatch aborts, a      *)
(* violated constraint does not), which decides whether an object-level    *)
(* refinement still runs.                                                  *)
(***************************************************************************)
TypeName(v) == v.t

Issue(message, aborts) == [message |-> message, aborts |-> aborts]

FString(key, optional, minLen, minMsg) ==
    [key |-> key, optional |-> optional, kind |-> "string", minLen |-> minLen, minMsg |-> minMsg]
FStringArray(key, optional, elemKind, minLen, minMsg) ==
    [key |-> key, optional |-> optional, kind |-> "array", elemKind |-> elemKind,
     minLen |-> minLen, minMsg |-> minMsg]
FInt(key, lo, hi) == [key |-> key, optional |-> TRUE, kind |-> "int", lo |-> lo, hi |-> hi]
FBool(key) == [key |-> key, optional |-> TRUE, kind |-> "boolean"]
FRecord(key, optional) == [key |-> key, optional |-> optional, kind |-> "record"]
FDatetime(key) == [key |-> key, optional |-> FALSE, kind |-> "datetime"]
FEnum(key, values, valuesText) ==
    [key |-> key, optional |-> TRUE, kind |-> "enum", values |-> values, valuesText |-> valuesText]
FDateTimeObject(key, refineMsg) ==
    [key |-> key, optional |-> FALSE, kind |-> "dateTimeObject", refineMsg |-> refineMsg]
FAnyArray(key) == [key |-> key, optional |-> TRUE, kind |-> "anyArray"]
FAnyObject(key) == [key |-> key, optional |-> TRUE, kind |-> "anyObject"]

(* z.string().email(): the shape local@domain *)
IsEmail(s) == \E i \in 2..(Len(s) - 1) : SubSeq(s, i, i) = "@"

(* z.string().datetime({offset: true}) on the timestamps the model draws *)
DatetimeStrings == {"2026-11-01T04:05:00Z", "2026-10-31T09:00:00-04:00"}
IsDatetime(s) == s \in DatetimeStrings

StringIssues(v, minLen, minMsg, isEmail) ==
    IF v.t # "string" THEN <<Issue("Expected string, received " \o TypeName(v), TRUE)>>
    ELSE (IF Len(v.s) < minLen THEN <<Issue(minMsg, FALSE)>> ELSE <<>>)
         \o (IF isEmail /\ ~IsEmail(v.s) THEN <<Issue("Invalid email", FALSE)>> ELSE <<>>)

RECURSIVE ElementIssues(_, _)
ElementIssues(items, elemKind) ==
    IF Len(items) = 0 THEN <<>>
    ELSE StringIssues(Head(items),
                      IF elemKind = "stringMin1" THEN 1 ELSE 0,
                      "String must contain at least 1 character(s)",
                      elemKind = "email")
         \o ElementIssues(Tail(items), elemKind)

(* calendarDateTimeSchema with its refine (dateTime or date present) *)
DateTimeObjectIssues(v, refineMsg) ==
    IF v.t # "object" THEN <<Issue("Expected object, received " \o TypeName(v), TRUE)>>
    ELSE LET typeIssues ==
                 (IF HasKey(v, "dateTime") /\ GetKey(v, "dateTime").t # "string"
                  THEN <<Issue("Expected string, received " \o TypeName(GetKey(v, "dateTime")), TRUE)>>
                  ELSE <<>>)
                 \o (IF HasKey(v, "date") /\ GetKey(v, "date").t # "string"
                     THEN <<Issue("Expected string, received " \o TypeName(GetKey(v, "date")), TRUE)>>
                     ELSE <<>>)
             truthy(key) == HasKey(v, key) /\ GetKey(v, key).t = "string" /\ GetKey(v, key).s # ""
         IN  IF Len(typeIssues) > 0 THEN typeIssues
             ELSE IF truthy("dateTime") \/ truthy("date") THEN <<>>
             ELSE <<Issue(refineMsg, FALSE)>>

FieldIssues(spec, input) ==
    IF ~HasKey(input, spec.key)
    THEN IF spec.optional THEN <<>> ELSE <<Issue("Required", TRUE)>>
    ELSE LET v == GetKey(input, spec.key)
         IN CASE spec.kind = "string" -> StringIssues(v, spec.minLen, spec.minMsg, FALSE)
              [] spec.kind = "array" ->
                    IF v.t # "array" THEN <<Issue("Expected array, received " \o TypeName(v), TRUE)>>
                    ELSE ElementIssues(v.items, spec.elemKind)
                         \o (IF Len(v.items) < spec.minLen THEN <<Issue(spec.minMsg, FALSE)>> ELSE <<>>)
              [] spec.kind = "int" ->
                    IF v.t # "number" THEN <<Issue("Expected number, received " \o TypeName(v), TRUE)>>
                    ELSE IF v.n < spec.lo
                         THEN <<Issue("Number must be greater than or equal to " \o ToString(spec.lo), FALSE)>>
                    ELSE IF v.n > spec.hi
                         THEN <<Issue("Number must be less than or equal to " \o ToString(spec.hi), FALSE)>>
                    ELSE <<>>
              [] spec.kind = "boolean" ->
                    IF v.t # "boolean" THEN <<Issue("Expected boolean, received " \o TypeName(v), TRUE)>>
                    ELSE <<>>
              [] spec.kind = "record" ->
                    IF v.t # "object" THEN <<Issue("Expected object, received " \o TypeName(v), TRUE)>>
                    ELSE <<>>
              [] spec.kind = "datetime" ->
                    IF v.t # "string" THEN <<Issue("Expected string, received " \o TypeName(v), TRUE)>>
                    ELSE IF ~IsDatetime(v.s) THEN <<Issue("Invalid datetime", FALSE)>>
                    ELSE <<>>
              [] spec.kind = "enum" ->
                    IF v.t # "string" \/ v.s \notin spec.values
                    THEN <<Issue("Invalid enum value. Expected " \o spec.valuesText, TRUE)>>
                    ELSE <<>>
              [] spec.kind = "dateTimeObject" -> DateTimeObjectIssues(v, spec.refineMsg)
              [] spec.kind = "anyArray" ->
                    IF v.t # "array" THEN <<Issue("Expected array, received " \o TypeName(v), TRUE)>>
                    ELSE <<>>
              [] spec.kind = "anyObject" ->
                    IF v.t # "object" THEN <<Issue("Expected object, received " \o TypeName(v), TRUE)>>
                    ELSE <<>>

RECURSIVE ShapeIssues(_, _)
ShapeIssues(shape, input) ==
    IF Len(shape) = 0 THEN <<>>
    ELSE FieldIssues(Head(shape), input) \o ShapeIssues(Tail(shape), input)

(* z.object strips the keys its shape does not name and keeps shape order *)
RECURSIVE StripToShape(_, _)
StripToShape(shape, input) ==
    IF Len(shape) = 0 THEN <<>>
    ELSE (IF HasKey(input, Head(shape).key)
          THEN <<Entry(Head(shape).key, GetKey(input, Head(shape).key))>>
          ELSE <<>>) \o StripToShape(Tail(shape), input)

searchKnowledgeSchema ==
    << FString("query", FALSE, 1, "query is required"),
       FInt("emailLimit", 1, 10), FInt("calendarLimit", 1, 10), FInt("contactLimit", 1, 10),
       FBool("exactSubjectMatch") >>

emailPayloadSchema ==
    << FStringArray("to", FALSE, "email", 1, "to must include at least one recipient"),
       FStringArray("cc", TRUE, "email", 0, ""),
       FStringArray("bcc", TRUE, "email", 0, ""),
       FString("subject", FALSE, 1, "subject is required"),
       FString("text", TRUE, 0, ""), FString("html", TRUE, 0, ""),
       FString("threadId", TRUE, 0, ""),
       FStringArray("references", TRUE, "string", 0, ""),
       FString("inReplyTo", TRUE, 0, "") >>

calendarEventSchema ==
    << FString("calendarId", TRUE, 0, ""),
       FString("summary", FALSE, 1, "summary is required"),
       FString("description", TRUE, 0, ""),
       FDateTimeObject("start", "start requires either dateTime or date"),
       FDateTimeObject("end", "end requires either dateTime or date"),
       FString("location", TRUE, 0, ""),
       FAnyArray("attendees"), FAnyObject("conferenceData"),
       FEnum("sendUpdates", {"all", "externalOnly", "none"}, "'all' | 'externalOnly' | 'none'") >>

updateCalendarEventSchema ==
    calendarEventSchema \o << FString("eventId", FALSE, 1, "eventId is required") >>

hubspotContactSchema ==
    << FString("contactId", TRUE, 0, ""), FRecord("properties", FALSE) >>

scheduleFollowUpSchema ==
    << FString("summary", FALSE, 1, "summary is required"),
       FDatetime("runAt"), FRecord("metadata", TRUE) >>

storeInstructionSchema ==
    << FString("title", FALSE, 1, "title is required"),
       FString("content", FALSE, 1, "content is required"),
       FStringArray("triggers", FALSE, "stringMin1", 1, "provide at least one trigger"),
       FRecord("metadata", TRUE) >>

listInstructionsSchema ==
    << FEnum("status", {"active", "paused", "archived"}, "'active' | 'paused' | 'archived'") >>

lookupContactSchema ==
    << FString("email", TRUE, 0, ""), FString("name", TRUE, 0, ""),
       FString("hubspotId", TRUE, 0, ""), FInt("limit", 1, 20) >>

(* the parameter schemas advertised to the model: the declared property   *)
(* names, the required ones, and additionalProperties                      *)
ToolParameters(properties, required) ==
    [properties |-> properties, required |-> required, additionalProperties |-> FALSE]

EmailParameters ==
    ToolParameters({"to", "cc", "bcc", "subject", "text", "html", "threadId",
                    "references", "inReplyTo"}, {"to", "subject"})

CalendarProperties ==
    {"calendarId", "summary", "description", "start", "end", "location", "attendees",
     "conferenceData", "sendUpdates"}

parameters(name) ==
    CASE name = "searchKnowledge" ->
            ToolParameters({"query", "emailLimit", "calendarLimit", "contactLimit",
                            "exactSubjectMatch"}, {"query"})
      [] name = "sendEmail" -> EmailParameters
      [] name = "draftEmail" -> EmailParameters
      [] name = "createCalendarEvent" ->
            ToolParameters(CalendarProperties, {"summary", "start", "end"})
      [] name = "updateCalendarEvent" ->
            ToolParameters(CalendarProperties \cup {"eventId"},
                           {"eventId", "summary", "start", "end"})
      [] name = "createOrUpdateHubspotContact" ->
            ToolParameters({"contactId", "properties"}, {"properties"})
      [] name = "lookupHubspotContact" ->
            ToolParameters({"email", "name", "hubspotId", "limit"}, {})
      [] name = "scheduleFollowUpTask" ->
            ToolParameters({"summary", "runAt", "metadata"}, {"summary", "runAt"})
      [] name = "storeInstruction" ->
            ToolParameters({"title", "content", "triggers", "metadata"},
                           {"title", "content", "triggers"})
      [] name = "listInstructions" -> ToolParameters({"status"}, {})

(* the registry, in registration order; refine names the object-level refinement *)
agentTools ==
    << [name |-> "searchKnowledge", schema |-> searchKnowledgeSchema, refine |-> "none"],
       [name |-> "sendEmail", schema |-> emailPayloadSchema, refine |-> "emailContent"],
       [name |-> "draftEmail", schema |-> emailPayloadSchema, refine |-> "emailContent"],
       [name |-> "createCalendarEvent", schema |-> calendarEventSchema, refine |-> "none"],
       [name |-> "updateCalendarEvent", schema |-> updateCalendarEventSchema, refine |-> "none"],
       [name |-> "createOrUpdateHubspotContact", schema |-> hubspotContactSchema, refine |-> "none"],
       [name |-> "lookupHubspotContact", schema |-> lookupContactSchema, refine |-> "none"],
       [name |-> "scheduleFollowUpTask", schema |-> scheduleFollowUpSchema, refine |-> "none"],
       [name |-> "storeInstruction", schema |-> storeInstructionSchema, refine |-> "none"],
       [name |-> "listInstructions", schema |-> listInstructionsSchema, refine |-> "none"] >>


(* tool.schema.parse(parsedInput): the issues in shape order, then the refinement *)
ZodParse(tool, input) ==
    IF input.t # "object"
    THEN [ok |-> FALSE, value |-> NULL,
          issues |-> <<Issue("Expected object, received " \o TypeName(input), TRUE)>>]
    ELSE LET base == ShapeIssues(tool.schema, input)
             aborted == \E i \in 1..Len(base) : base[i].aborts
             hasContent(key) ==
                 /\ HasKey(input, key)
                 /\ GetKey(input, key).t = "string"
                 /\ ~IsBlank(GetKey(input, key).s)
             refined ==
                 IF tool.refine = "emailContent" /\ ~aborted
                    /\ ~(hasContent("text") \/ hasContent("html"))
                 THEN <<Issue("Either text or html content is required", FALSE)>>
                 ELSE <<>>
             issues == base \o refined
         IN  [ok |-> Len(issues) = 0,
              value |-> JObj(StripToShape(tool.schema, input)),
              issues |-> issues]

(***************************************************************************)
(* executeAgentTool.  The handler's outcome belongs to the environment     *)
(* (the external service answers or fails): a normal return with a result, *)
(* a thrown Error with a message, or a thrown value that is no Error.      *)
(***************************************************************************)
Success(result) == [success |-> TRUE, result |-> result]
Failure(error) == [success |-> FALSE, error |-> error]

HandlerReturn(result) == [kind |-> "return", result |-> result, isError |-> FALSE, message |-> ""]
HandlerThrowError(message) == [kind |-> "throw", result |-> NULL, isError |-> TRUE, message |-> message]
HandlerThrowValue == [kind |-> "throw", result |-> NULL, isError |-> FALSE, message |-> ""]

(* the argument objects the model draws raw argument strings from *)
ArgumentValues ==
    { JObj(<<>>), JArr(<<>>), JNull,
      JObj(<<Entry("status", JStr("active"))>>),
      JObj(<<Entry("status", JStr("deleted"))>>),
      JObj(<<Entry("to", JArr(<<JStr("client@example.com")>>)), Entry("subject", JStr("Hello")),
             Entry("text", JStr("Hi"))>>),
      JObj(<<Entry("to", JArr(<<>>)), Entry("subject", JStr(""))>>),
      JObj(<<Entry("summary", JStr("Call back")), Entry("runAt", JStr("2026-11-01T04:05:00Z"))>>),
      JObj(<<Entry("title", JStr("Greet")), Entry("content", JStr("Say hi")),
             Entry("triggers", JArr(<<JStr("gmail.message_created")>>))>>),
      JObj(<<Entry("title", JStr("Greet")), Entry("content", JStr("Say hi")),
             Entry("triggers", JArr(<<>>))>>),
      JObj(<<Entry("properties", JObj(<<Entry("email", JStr("a@b.co"))>>)),
             Entry("extra", JStr("x"))>>),
      JObj(<<Entry("limit", JNum(50))>>),
      JObj(<<Entry("query", JStr("portfolio"))>>),
      JObj(<<Entry("eventId", JStr("e1")), Entry("summary", JStr("Review")),
             Entry("start", JObj(<<Entry("dateTime", JStr("2026-11-02T10:00:00Z"))>>)),
             Entry("end", JObj(<<Entry("date", JStr("2026-11-02"))>>))>>) }

(* JSON.parse: the inverse of JSON.stringify on the values above, a SyntaxError elsewhere *)
JSONParse(text) ==
    LET hits == {v \in ArgumentValues : JSONStringify(v) = text}
    IN  IF hits # {} THEN [ok |-> TRUE, value |-> CHOOSE v \in hits : TRUE, message |-> ""]
        ELSE [ok |-> FALSE, value |-> NULL, message |-> "Unexpected token in JSON"]

RawArguments ==
    {JSONStringify(v) : v \in ArgumentValues} \cup {"", "  ", "{\"to\":", "not json"}

LookupTool(name) ==
    IF \E i \in 1..Len(agentTools) : agentTools[i].name = name
    THEN agentTools[CHOOSE i \in 1..Len(agentTools) :
            /\ agentTools[i].name = name
            /\ \A j \in 1..(i-1) : agentTools[j].name # name]
    ELSE NULL

(* lines 1100-1111: an absent or blank argument string stands for {} *)
ParseArguments(rawArguments) ==
    IF rawArguments = "" \/ IsBlank(rawArguments)
    THEN [ok |-> TRUE, value |-> JObj(<<>>), message |-> ""]
    ELSE LET r == JSONParse(rawArguments)
         IN  IF r.ok THEN r
             ELSE [ok |-> FALSE, value |-> NULL,
                   message |-> "Failed to parse arguments: " \o r.message]

(* lines 1113-1122 *)
ValidateInput(tool, parsedInput) ==
    LET r == ZodParse(tool, parsedInput)
    IN  IF r.ok THEN [ok |-> TRUE, value |-> r.value, message |-> ""]
        ELSE [ok |-> FALSE, value |-> NULL,
              message |-> JoinStrings([i \in 1..Len(r.issues) |-> r.issues[i].message], ", ")]

(* a handler call that lets the exception escape *)
InvokeHandlerUncaught(outcome) ==
    IF outcome.kind = "return"
    THEN [threw |-> FALSE, envelope |-> Success(outcome.result)]
    ELSE [threw |-> TRUE, envelope |-> NotReturned]

(* lines 1124-1130: the handler call inside try/catch *)
InvokeHandler(outcome) ==
    IF outcome.kind = "return"
    THEN [threw |-> FALSE, envelope |-> Success(outcome.result)]
    ELSE [threw |-> FALSE,
          envelope |-> Failure(IF outcome.isError THEN outcome.message
                               ELSE "Tool execution failed")]

(* the whole call as one function of its inputs and the handler's outcome *)
ExecuteAgentTool(name, rawArguments, outcome) ==
    LET tool == LookupTool(name)
    IN  IF tool = NULL
        THEN [envelope |-> Failure("Unknown tool: " \o name), invoked |-> FALSE, threw |-> FALSE]
        ELSE LET parsed == ParseArguments(rawArguments)
             IN  IF ~parsed.ok
                 THEN [envelope |-> Failure(parsed.message), invoked |-> FALSE, threw |-> FALSE]
                 ELSE LET validated == ValidateInput(tool, parsed.value)
                      IN  IF ~validated.ok
                          THEN [envelope |-> Failure(validated.message), invoked |-> FALSE,
                                threw |-> FALSE]
                          ELSE LET call == InvokeHandler(outcome)
                               IN  [envelope |-> call.envelope, invoked |-> TRUE,
                                    threw |-> call.threw]


(***************************************************************************)
(* Follow-up scheduling (the scheduleFollowUpTask tool).                   *)
(*                                                                         *)
(* Instants are counted in hours from the model's epoch,                   *)
(* 2026-10-31T00:00Z, and the model draws instants on whole hours, where   *)
(* the minute, second and millisecond parts are zero.  An ISO 8601 text    *)
(* with offset is the pair of its wall-clock reading and its offset.       *)
(***************************************************************************)
DAY_IN_MS == 24

IsoText(wall, offset) == [wall |-> wall, offset |-> offset, valid |-> TRUE]
InvalidIsoText == [wall |-> 0, offset |-> 0, valid |-> FALSE]

(* new Date(text).getTime(); NaN is NULL *)
DateParse(text) == IF text.valid THEN JNum(text.wall - text.offset) ELSE NULL

(* Date.prototype.toISOString(): the UTC reading, offset Z *)
ToISOString(instant) == IsoText(instant, 0)

(* America/New_York leaves daylight time on 2026-11-01 at 06:00Z, hour 30 *)
NewYorkFallBack == 30

ValidTimeZones == {"UTC", "Asia/Tokyo", "America/New_York"}

(* the zone's UTC offset at an instant, from the time-zone database *)
ZoneOffset(timeZone, instant) ==
    CASE timeZone = "UTC" -> 0
      [] timeZone = "Asia/Tokyo" -> 9
      [] timeZone = "America/New_York" -> IF instant < NewYorkFallBack THEN -4 ELSE -5

isValidTimeZone(value) == value \in ValidTimeZones

RECURSIVE TrimLeft(_)
TrimLeft(s) ==
    IF Len(s) > 0 /\ SubSeq(s, 1, 1) \in Whitespace THEN TrimLeft(SubSeq(s, 2, Len(s))) ELSE s
RECURSIVE TrimRight(_)
TrimRight(s) ==
    IF Len(s) > 0 /\ SubSeq(s, Len(s), Len(s)) \in Whitespace
    THEN TrimRight(SubSeq(s, 1, Len(s) - 1)) ELSE s
Trim(s) == TrimRight(TrimLeft(s))

(* Intl.DateTimeFormat(...).formatToParts(date): the local day and hour *)
getDatePartsInTimeZone(date, timeZone) == (date + ZoneOffset(timeZone, date)) \div DAY_IN_MS
getTimePartsInTimeZone(date, timeZone) == (date + ZoneOffset(timeZone, date)) % DAY_IN_MS

(* Date.UTC(year, month - 1, day, hour, minute, second, 0) *)
DateUTC(day, hour) == day * DAY_IN_MS + hour

(* lines 1041-1063: the local reading of the instant, taken as UTC, minus the instant *)
getTimeZoneOffset(date, timeZone) ==
    LET day == getDatePartsInTimeZone(date, timeZone)
        hour == getTimePartsInTimeZone(date, timeZone)
    IN  DateUTC(day, hour) - date

(* lines 1011-1017 *)
buildCandidateForDate(baseDate, timeOfDay, timeZone) ==
    LET day == getDatePartsInTimeZone(baseDate, timeZone)
        hour == getTimePartsInTimeZone(timeOfDay, timeZone)
        baseUtc == DateUTC(day, hour)
        offsetMinutes == getTimeZoneOffset(baseUtc, timeZone)
    IN  baseUtc - offsetMinutes

(* lines 902-932; now is the clock reading of line 909 *)
normaliseScheduledFor(runAt, timeZone, now) ==
    LET parsedValue == DateParse(runAt)
    IN  IF parsedValue = NULL
        THEN [threw |-> TRUE, scheduled |-> 0, parsed |-> 0, adjusted |-> FALSE]
        ELSE LET parsed == parsedValue.n
                 todayCandidate == buildCandidateForDate(now, parsed, timeZone)
                 tomorrow == now + DAY_IN_MS
                 tomorrowCandidate == buildCandidateForDate(tomorrow, parsed, timeZone)
             IN  IF parsed > now
                 THEN [threw |-> FALSE, scheduled |-> parsed, parsed |-> parsed, adjusted |-> FALSE]
                 ELSE IF todayCandidate > now
                 THEN [threw |-> FALSE, scheduled |-> todayCandidate, parsed |-> parsed,
                       adjusted |-> TRUE]
                 ELSE [threw |-> FALSE, scheduled |-> tomorrowCandidate, parsed |-> parsed,
                       adjusted |-> TRUE]

(* lines 934-952 *)
buildSchedulingMetadata(runAt, timeZone, now) ==
    LET n == normaliseScheduledFor(runAt, timeZone, now)
        base == << Entry("inputRunAt", [t |-> "iso", iso |-> runAt]),
                   Entry("parsedRunAt", [t |-> "iso", iso |-> ToISOString(n.parsed)]),
                   Entry("scheduledRunAt", [t |-> "iso", iso |-> ToISOString(n.scheduled)]),
                   Entry("generatedAt", [t |-> "iso", iso |-> ToISOString(now)]),
                   Entry("timeZone", JStr(timeZone)) >>
        adjustment == JObj(<< Entry("type", JStr("shifted_forward")),
                              Entry("reason", JStr("input_in_past")) >>)
    IN  [threw |-> n.threw,
         scheduled |-> n.scheduled,
         payload |-> JObj(IF n.adjusted THEN Append(base, Entry("adjustment", adjustment))
                          ELSE base)]

(* obj[key] = value on an object: replaces in place, or appends *)
SetKey(obj, key, value) ==
    IF HasKey(obj, key)
    THEN JObj([i \in 1..Len(obj.entries) |->
                  IF obj.entries[i].k = key THEN Entry(key, value) ELSE obj.entries[i]])
    ELSE JObj(Append(obj.entries, Entry(key, value)))

(* lines 954-963; an absent metadata is NULL *)
mergeMetadata(metadata, scheduling) ==
    LET base == IF metadata # NULL /\ metadata.t \in {"object"} THEN metadata ELSE JObj(<<>>)
    IN  SetKey(base, "followUpScheduling", scheduling.payload)

(* lines 989-1009 *)
extractTimeZoneFromMetadata(metadata) ==
    IF metadata = NULL \/ metadata.t # "object" THEN NULL
    ELSE LET direct == IF HasKey(metadata, "timezone") /\ GetKey(metadata, "timezone") # NULL
                       THEN GetKey(metadata, "timezone")
                       ELSE IF HasKey(metadata, "timeZone") THEN GetKey(metadata, "timeZone")
                       ELSE NULL
             usable(v) == v.t = "string" /\ Trim(v.s) # "" /\ isValidTimeZone(Trim(v.s))
             scheduling == IF HasKey(metadata, "followUpScheduling")
                           THEN GetKey(metadata, "followUpScheduling") ELSE NULL
             tz == IF scheduling.t = "object" /\ HasKey(scheduling, "timeZone")
                   THEN GetKey(scheduling, "timeZone") ELSE NULL
         IN  IF usable(direct) THEN JStr(Trim(direct.s))
             ELSE IF usable(tz) THEN JStr(Trim(tz.s))
             ELSE NULL

(* a resolution that asks the metadata before the context *)
resolveTimeZoneHintFirst(metadata, contextTimeZone) ==
    LET metadataTz == extractTimeZoneFromMetadata(metadata)
    IN  IF metadataTz # NULL THEN metadataTz.s
        ELSE IF contextTimeZone # "" /\ isValidTimeZone(Trim(contextTimeZone))
        THEN Trim(contextTimeZone)
        ELSE "UTC"

(* lines 967-978; an absent contextTimeZone is the empty string *)
resolveTimeZone(metadata, contextTimeZone) ==
    IF contextTimeZone # "" /\ isValidTimeZone(Trim(contextTimeZone))
    THEN Trim(contextTimeZone)
    ELSE LET metadataTz == extractTimeZoneFromMetadata(metadata)
         IN  IF metadataTz # NULL THEN metadataTz.s ELSE "UTC"


(***************************************************************************)
(* The store.  A table is the sequence of its rows in creation order; a    *)
(* row carries its id.  A nullable column holds NULL, a JNum instant or a  *)
(* JStr text.                                                              *)
(***************************************************************************)
TaskRow(id, userId, instructionId, type, status, summary, metadata, scheduledFor, createdAt) ==
    [id |-> id, userId |-> userId, instructionId |-> instructionId, type |-> type,
     status |-> status, summary |-> summary, metadata |-> metadata,
     scheduledFor |-> scheduledFor, createdAt |-> createdAt, startedAt |-> NULL,
     completedAt |-> NULL, errorMessage |-> NULL]

StepRow(id, taskId, index, title, status, input) ==
    [id |-> id, taskId |-> taskId, index |-> index, title |-> title, status |-> status,
     input |-> input, output |-> NULL, error |-> NULL, startedAt |-> NULL, completedAt |-> NULL]

ContextRow(taskId, key, value) == [taskId |-> taskId, key |-> key, value |-> value]

EvaluationRow(id, userId, instructionId, eventType, eventPayload, outcome) ==
    [id |-> id, userId |-> userId, instructionId |-> instructionId, eventType |-> eventType,
     eventPayload |-> eventPayload, outcome |-> outcome]

InstructionRow(id, userId, title, content, triggers, status) ==
    [id |-> id, userId |-> userId, title |-> title, content |-> content, triggers |-> triggers,
     status |-> status, lastEvaluatedAt |-> NULL]

DB == [instructions |-> instructions, evaluations |-> evaluations, tasks |-> tasks,
       contexts |-> contexts, steps |-> steps]

MaxOf(S) == IF S = {} THEN 0 ELSE CHOOSE x \in S : \A y \in S : y <= x
Ids(rows) == {rows[i].id : i \in 1..Len(rows)}
HasId(rows, id) == id \in Ids(rows)
RowById(rows, id) == rows[CHOOSE i \in 1..Len(rows) : rows[i].id = id]

(* one write of the data layer: a create, or an update of the row with the id *)
Write(table, op, row) == [table |-> table, op |-> op, row |-> row]

ApplyWrite(db, w) ==
    CASE w.op = "create" -> [db EXCEPT ![w.table] = Append(@, w.row)]
      [] w.op = "touchInstruction" ->
            [db EXCEPT !.instructions =
                [i \in 1..Len(@) |->
                    IF @[i].id = w.row.id
                    THEN [@[i] EXCEPT !.lastEvaluatedAt = w.row.lastEvaluatedAt]
                    ELSE @[i]]]

RECURSIVE ApplyWrites(_, _)
ApplyWrites(db, writes) ==
    IF Len(writes) = 0 THEN db
    ELSE ApplyWrites(ApplyWrite(db, Head(writes)), Tail(writes))

(* the next free id of a table, given the rows written but not yet committed *)
NextId(db, pending, table) ==
    1 + MaxOf(Ids(db[table])
              \cup {pending[i].row.id : i \in {j \in 1..Len(pending) :
                        pending[j].table = table /\ pending[j].op = "create"}})

(* lines 520-563 of embeddings.ts; the status column defaults to pending *)
createAgentTask(db, userId, input, now) ==
    LET taskId == NextId(db, <<>>, "tasks")
        firstStepId == NextId(db, <<>>, "steps")
        row == TaskRow(taskId, userId, input.instructionId, input.type, "pending", input.summary,
                       input.metadata, input.scheduledFor, JNum(now))
    IN  [db |-> [db EXCEPT
                   !.tasks = Append(@, row),
                   !.contexts = @ \o
                       [i \in 1..Len(input.context) |->
                           ContextRow(taskId, input.context[i].key, input.context[i].value)],
                   !.steps = @ \o
                       [i \in 1..Len(input.steps) |->
                           StepRow(firstStepId + i - 1, taskId, i - 1, input.steps[i].title,
                                   "pending", input.steps[i].input)]],
         taskId |-> taskId]

(* lines 565-572 of embeddings.ts *)
scheduleFollowUpTask(db, userId, input, now) ==
    createAgentTask(db, userId,
        [instructionId |-> NULL, type |-> "followUp", summary |-> JStr(input.summary),
         scheduledFor |-> JNum(input.runAt), metadata |-> input.metadata,
         context |-> <<>>, steps |-> <<>>],
        now)

(***************************************************************************)
(* The instruction matcher, evaluateInstructionsForEvent.                  *)
(***************************************************************************)
SeqContains(items, x) == \E i \in 1..Len(items) : items[i] = x

(* lines 47-50: Array.isArray(triggers) ? triggers : [], then includes(event.type) *)
TriggersInclude(instruction, eventType) ==
    /\ instruction.triggers # NULL
    /\ SeqContains(instruction.triggers.items, eventType)

(* a query that forgets the status filter *)
MatchInstructionsAnyStatus(db, userId, event) ==
    LET Mine(row) == row.userId = userId
        Triggered(row) == TriggersInclude(row, event.type)
    IN  SelectSeq(SelectSeq(db.instructions, Mine), Triggered)

(* a query that leaves out an instruction already evaluated for such an event *)
MatchInstructionsOnce(db, userId, event) ==
    LET Mine(row) == row.userId = userId /\ row.status = "active"
        Triggered(row) == TriggersInclude(row, event.type)
        Fresh(row) == ~\E i \in 1..Len(db.evaluations) :
                          /\ db.evaluations[i].instructionId = row.id
                          /\ db.evaluations[i].eventType = event.type
                          /\ db.evaluations[i].eventPayload = event.payload
    IN  SelectSeq(SelectSeq(SelectSeq(db.instructions, Mine), Triggered), Fresh)

(* lines 40-50: the user's active instructions whose triggers hold the event type *)
MatchInstructions(db, userId, event) ==
    LET Mine(row) == row.userId = userId /\ row.status = "active"
        Triggered(row) == TriggersInclude(row, event.type)
    IN  SelectSeq(SelectSeq(db.instructions, Mine), Triggered)

(* a write that is visible at once, outside any transaction *)
TxWriteAutocommit(db, pending, w) == [db |-> ApplyWrite(db, w), pending |-> pending]

(* line 55, prisma.$transaction: a write stays with the transaction until it commits *)
TxWrite(db, pending, w) == [db |-> db, pending |-> Append(pending, w)]

(* lines 56-64 *)
NewEvaluation(db, pending, userId, instruction, event) ==
    EvaluationRow(NextId(db, pending, "evaluations"), userId, instruction.id, event.type,
                  event.payload, "matched")

(* a touch that never moves the timestamp *)
TouchedAtStale(instruction, event, now) == instruction.lastEvaluatedAt

(* lines 66-71: event.occurredAt ?? new Date() *)
TouchedAt(instruction, event, now) ==
    IF event.occurredAt # NULL THEN event.occurredAt ELSE JNum(now)

(* lines 73-86 *)
NewInstructionTask(db, pending, userId, instruction, event, evaluationId, now) ==
    TaskRow(NextId(db, pending, "tasks"), userId, JNum(instruction.id), "instruction", "pending",
            JStr(instruction.title),
            JObj(<< Entry("instructionContent", JStr(instruction.content)),
                    Entry("eventType", JStr(event.type)),
                    Entry("evaluationId", JNum(evaluationId)) >>),
            NULL, JNum(now))

(* lines 98-109 *)
NewSeedStep(db, pending, taskId, instruction, event) ==
    StepRow(NextId(db, pending, "steps"), taskId, 0, "Evaluate instruction", "pending",
            JObj(<< Entry("instruction", JStr(instruction.content)),
                    Entry("eventType", JStr(event.type)) >>))

NoEvent == [type |-> "", payload |-> NULL, occurredAt |-> NULL]
NoDB == [instructions |-> <<>>, evaluations |-> <<>>, tasks |-> <<>>, contexts |-> <<>>,
         steps |-> <<>>]
MatcherAtRest ==
    [pc |-> "idle", userId |-> "", event |-> NoEvent, matched |-> <<>>, idx |-> 1,
     stage |-> "none", pending |-> <<>>, evaluationId |-> 0, taskId |-> 0,
     evaluations |-> <<>>, before |-> NoDB, failedAt |-> "none", calls |-> <<>>]

MatcherIdle == matcher = MatcherAtRest /\ eventsSeen = 0

(***************************************************************************)
(* The task runner, processAgentTaskById and runTaskAutomation             *)
(* (embeddings.ts lines 170-400).                                          *)
(***************************************************************************)
maxIterations == 6
SummaryLimit == 160

Min(a, b) == IF a < b THEN a ELSE b

(* String.prototype.slice(0, n) *)
Slice(text, n) == SubSeq(text, 1, Min(Len(text), n))

(* prisma update: the row with the id takes the fields of data *)
UpdateRow(rows, id, data) ==
    [i \in 1..Len(rows) |->
        IF rows[i].id = id
        THEN [f \in DOMAIN rows[i] |-> IF f \in DOMAIN data THEN data[f] ELSE rows[i][f]]
        ELSE rows[i]]

(* a where clause that takes a failed task again *)
ClaimEligibleOrFailed(status) == status \in {"pending", "waiting", "failed"}

(* a where clause that also takes a running task *)
ClaimEligibleOrRunning(status) == status \in {"pending", "waiting", "running"}

(* lines 172-177: status in [pending, waiting] *)
ClaimEligible(status) == status \in {"pending", "waiting"}

(* a claim that stamps startedAt on the row whatever its status *)
ClaimTaskStamping(db, taskId, now) ==
    LET hit == HasId(db.tasks, taskId) /\ ClaimEligible(RowById(db.tasks, taskId).status)
        data == IF hit THEN [status |-> "running", startedAt |-> JNum(now)]
                ELSE [startedAt |-> JNum(now)]
    IN  [db |-> [db EXCEPT !.tasks = UpdateRow(@, taskId, data)],
         count |-> IF hit THEN 1 ELSE 0]

(* lines 171-182: one conditional update, and the number of rows it affected *)
ClaimTask(db, taskId, now) ==
    LET hit == HasId(db.tasks, taskId) /\ ClaimEligible(RowById(db.tasks, taskId).status)
        data == [status |-> "running", startedAt |-> JNum(now)]
    IN  IF hit
        THEN [db |-> [db EXCEPT !.tasks = UpdateRow(@, taskId, data)], count |-> 1]
        ELSE [db |-> db, count |-> 0]

(* lines 192-194: the task's steps, ordered by index *)
RECURSIVE SortByIndex(_)
SortByIndex(rowSet) ==
    IF rowSet = {} THEN <<>>
    ELSE LET first == CHOOSE r \in rowSet :
                          \A q \in rowSet : r.index < q.index \/ (r.index = q.index /\ r.id <= q.id)
         IN  <<first>> \o SortByIndex(rowSet \ {first})

StepsOfTask(db, taskId) ==
    SortByIndex({db.steps[i] : i \in {j \in 1..Len(db.steps) : db.steps[j].taskId = taskId}})

(* a find that only looks for a pending step *)
FindPendingStep(taskSteps) ==
    IF \E i \in 1..Len(taskSteps) : taskSteps[i].status = "pending"
    THEN taskSteps[CHOOSE i \in 1..Len(taskSteps) :
            /\ taskSteps[i].status = "pending"
            /\ \A j \in 1..(i-1) : taskSteps[j].status # "pending"]
    ELSE NULL

(* lines 206-208: steps.find(pending or running), NULL for undefined *)
FindOutstandingStep(taskSteps) ==
    IF \E i \in 1..Len(taskSteps) : taskSteps[i].status \in {"pending", "running"}
    THEN taskSteps[CHOOSE i \in 1..Len(taskSteps) :
            /\ taskSteps[i].status \in {"pending", "running"}
            /\ \A j \in 1..(i-1) : taskSteps[j].status \notin {"pending", "running"}]
    ELSE NULL

(* lines 211-218 *)
(* a step that is always given index 0 *)
NewRunnerStepAtZero(db, task) ==
    StepRow(NextId(db, <<>>, "steps"), task.row.id, 0,
            IF task.row.summary # NULL THEN task.row.summary.s ELSE "Process task",
            "pending", NULL)

NewRunnerStep(db, task) ==
    StepRow(NextId(db, <<>>, "steps"), task.row.id, Len(task.steps),
            IF task.row.summary # NULL THEN task.row.summary.s ELSE "Process task",
            "pending", NULL)

(* lines 498-500 *)
isPlainObject(value) == value.t = "object"

(* lines 487-496: JSON.parse(JSON.stringify(value ?? null)); stringify     *)
(* leaves out a property whose value is undefined and writes null for an   *)
(* undefined array item                                                    *)
RECURSIVE toInputJson(_)
toInputJson(value) ==
    IF value \in {NULL, [t |-> "undefined"]} THEN NULL
    ELSE IF value.t = "object"
    THEN LET kept == SelectSeq(value.entries, LAMBDA e : e.v # [t |-> "undefined"])
         IN  JObj([i \in 1..Len(kept) |-> Entry(kept[i].k, toInputJson(kept[i].v))])
    ELSE IF value.t = "array"
    THEN JArr([i \in 1..Len(value.items) |-> toInputJson(value.items[i])])
    ELSE value

(* {...existing, ...updates}: the keys of existing in their order, then the *)
(* new keys of updates; a key of both takes the value of updates           *)
Spread(existing, updates) ==
    JObj([i \in 1..Len(existing.entries) |->
              IF HasKey(updates, existing.entries[i].k)
              THEN Entry(existing.entries[i].k, GetKey(updates, existing.entries[i].k))
              ELSE existing.entries[i]]
          \o SelectSeq(updates.entries, LAMBDA e : ~HasKey(existing, e.k)))

(* a merge that writes updates over whatever is stored *)
mergeTaskMetadataReplacing(existing, updates) ==
    IF updates \in {NULL, [t |-> "undefined"]} THEN toInputJson(existing)
    ELSE toInputJson(updates)

(* lines 465-485; x == null holds for null and undefined, Prisma.DbNull is NULL *)
mergeTaskMetadata(existing, updates) ==
    IF updates \in {NULL, [t |-> "undefined"]}
    THEN IF existing \in {NULL, [t |-> "undefined"]} THEN NULL ELSE toInputJson(existing)
    ELSE IF existing \in {NULL, [t |-> "undefined"]} THEN toInputJson(updates)
    ELSE IF isPlainObject(existing) /\ isPlainObject(updates)
    THEN toInputJson(Spread(existing, updates))
    ELSE toInputJson(updates)

(* chat messages *)
ChatMessage(role, content) ==
    [role |-> role, content |-> content, tool_calls |-> <<>>, tool_call_id |-> "", name |-> ""]
AssistantToolCalls(content, toolCalls) ==
    [role |-> "assistant", content |-> content, tool_calls |-> toolCalls, tool_call_id |-> "",
     name |-> ""]
ToolMessage(toolCallId, name, content) ==
    [role |-> "tool", content |-> content, tool_calls |-> <<>>, tool_call_id |-> toolCallId,
     name |-> name]

(* what the model asked for, without the environment's answer to the call *)
ToolCallOf(call) ==
    [id |-> call.id, type |-> "function",
     function |-> [name |-> call.name, arguments |-> call.arguments]]

(* lines 189-198: the row with its ordered steps, contexts and instruction *)
TaskWithRelations(db, taskId) ==
    LET row == RowById(db.tasks, taskId)
    IN  [row |-> row,
         steps |-> StepsOfTask(db, taskId),
         contexts |-> SelectSeq(db.contexts, LAMBDA c : c.taskId = taskId),
         instruction |-> IF row.instructionId # NULL /\ HasId(db.instructions, row.instructionId.n)
                         THEN RowById(db.instructions, row.instructionId.n)
                         ELSE NULL]

(* lines 402-463; an instant is printed as its hour number, retrieval is   *)
(* the rendered snippet sections                                           *)
buildTaskPrompt(task, step, retrieval) ==
    JoinStrings(
        << "Task ID: " \o ToString(task.row.id), "Task type: " \o task.row.type >>
        \o (IF task.row.summary # NULL /\ task.row.summary.s # ""
            THEN << "Summary: " \o task.row.summary.s >> ELSE <<>>)
        \o (IF task.row.scheduledFor # NULL
            THEN << "Scheduled for: " \o ToString(task.row.scheduledFor.n) >> ELSE <<>>)
        \o (IF task.instruction # NULL
            THEN << "Instruction: " \o task.instruction.title \o "\n" \o task.instruction.content >>
            ELSE <<>>)
        \o (IF task.row.metadata # NULL
            THEN << "Task metadata: " \o JSONStringify(task.row.metadata) >> ELSE <<>>)
        \o (IF Len(task.contexts) > 0
            THEN << "Task context entries:\n"
                    \o JoinStrings([i \in 1..Len(task.contexts) |->
                           task.contexts[i].key \o ": " \o JSONStringify(task.contexts[i].value)],
                           "\n") >>
            ELSE <<>>)
        \o (IF step.input # NULL
            THEN << "Current step input: " \o JSONStringify(step.input) >> ELSE <<>>)
        \o retrieval
        \o << "Current step: " \o step.title
              \o ". Move the workflow forward. Use tools if necessary and summarise the outcome." >>,
        "\n\n")

(* lines 128-132, the first sentence *)
AUTOMATION_SYSTEM_PROMPT == "You are the background automation agent for a financial advisor."

(* a serialisation that drops the error text *)
EnvelopeJsonBare(envelope) == JObj(<<Entry("success", JBool(envelope.success))>>)

(* the envelope as a JSON value, for JSON.stringify(execution) *)
EnvelopeJson(envelope) ==
    IF envelope.success
    THEN JObj(<<Entry("success", JBool(TRUE)), Entry("result", envelope.result)>>)
    ELSE JObj(<<Entry("success", JBool(FALSE)), Entry("error", JStr(envelope.error))>>)

(* lines 352-358: JSON.parse(argsText), the raw string when that throws *)
ParsedArgs(argsText) ==
    IF JSONParse(argsText).ok THEN JSONParse(argsText).value ELSE JStr(argsText)

(* lines 362-369, as JSON: undefined members are left out *)
ExecutedTool(call, argsText, envelope) ==
    JObj(<< Entry("id", JStr(call.id)), Entry("name", JStr(call.name)),
            Entry("arguments", ParsedArgs(argsText)),
            Entry("success", JBool(envelope.success)) >>
         \o (IF envelope.success THEN <<Entry("result", envelope.result)>>
             ELSE <<Entry("error", JStr(envelope.error))>>))

GenericNotice == "Automation run completed without a detailed response."

(* a summary that is not cut *)
SummaryOfWhole(assistantContent) == assistantContent

(* line 397 *)
SummaryOf(assistantContent) == Slice(assistantContent, SummaryLimit)

(* lines 386-399: the fallback notice, the output, the summary *)
TaskExecutionResult(assistantContent, executedTools) ==
    LET text == IF IsBlank(assistantContent) THEN GenericNotice ELSE assistantContent
    IN  [summary |-> SummaryOf(text),
         output |-> JObj(<<Entry("assistant", JStr(text)), Entry("tools", JArr(executedTools))>>),
         taskMetadata |-> NULL]

(* a catch block that reports the failure without writing it *)
FailTaskUnwritten(db, taskId, message) == db

(* lines 257-263 *)
FailTask(db, taskId, message) ==
    [db EXCEPT !.tasks = UpdateRow(@, taskId, [status |-> "failed",
                                               errorMessage |-> JStr(message)])]

(* lines 265-275 *)
FailRunningSteps(db, taskId, message, now) ==
    [db EXCEPT !.steps =
        [i \in 1..Len(@) |->
            IF @[i].taskId = taskId /\ @[i].status = "running"
            THEN [@[i] EXCEPT !.status = "failed", !.completedAt = JNum(now),
                              !.error = JStr(message)]
            ELSE @[i]]]

(* line 255 *)
CaughtMessage(thrown) == IF thrown.isError THEN thrown.message ELSE "Task processing failed"

Thrown(message) == [isError |-> TRUE, message |-> message]
ThrownValue == [isError |-> FALSE, message |-> ""]

NoTask == [row |-> TaskRow(0, "", NULL, "", "", NULL, NULL, NULL, NULL), steps |-> <<>>,
           contexts |-> <<>>, instruction |-> NULL]
NoStepRow == StepRow(0, 0, 0, "", "", NULL)
NoExecution == [summary |-> "", output |-> NULL, taskMetadata |-> NULL]

RunnerAtRest ==
    [pc |-> "idle", taskId |-> 0, task |-> NoTask, nextStep |-> NoStepRow,
     script |-> <<>>, iteration |-> 0, toolQueue |-> <<>>, chatMessages |-> <<>>,
     executedTools |-> <<>>, execution |-> NoExecution, thrown |-> ThrownValue,
     failedAt |-> "", result |-> NotReturned]

Runners == {"r1", "r2"}

(* runAutomationCycle at rest *)
Absent == [t |-> "undefined"]
NoOptions == [userId |-> NULL, taskBatchSize |-> NULL]
NoOutcome == [userId |-> "", integrations |-> [google |-> FALSE, hubspot |-> FALSE],
              gmail |-> Absent, calendar |-> Absent, hubspot |-> Absent, tasks |-> <<>>]
CycleAtRest ==
    [pc |-> "idle", options |-> NoOptions, userIds |-> <<>>, integrationMap |-> <<>>, idx |-> 1,
     outcome |-> NoOutcome, outcomes |-> <<>>, dueTasks |-> <<>>, results |-> <<>>,
     syncs |-> <<>>, failedAt |-> "", result |-> NotReturned,
     calledAt |-> 0, selected |-> <<>>]
NoAccounts == [users |-> <<>>, credentials |-> <<>>]
CycleIdle == cycle = CycleAtRest /\ accounts = NoAccounts

(* runModelIteration at rest *)
ModelRunAtRest ==
    [pc |-> "idle", onToken |-> FALSE, finishReason |-> NULL, content |-> "",
     toolCallDetected |-> FALSE, toolCallAccumulator |-> <<>>, forwarded |-> <<>>,
     result |-> NotReturned]
StreamIdle == modelRun = ModelRunAtRest /\ chunksSeen = <<>>

(* createOrUpdateHubspotContact at rest *)
NoContactInput == [contactId |-> NULL, properties |-> NULL]
CrmCallAtRest ==
    [pc |-> "idle", input |-> NoContactInput, payloadId |-> "", normalised |-> NULL,
     persisted |-> FALSE, rowId |-> 0, events |-> <<>>, evaluated |-> FALSE]
NoCrm == [portalId |-> NULL, remote |-> <<>>, created |-> 0, contacts |-> <<>>]
CrmIdle == crm = NoCrm /\ crmCall = CrmCallAtRest /\ crmCalls = <<>>

(* no request to the instruction endpoints yet *)
NoResponse == [status |-> 0, instructionId |-> 0]
ApiIdle == apiResponse = NoResponse

NoMergeCall == [pc |-> "idle", existing |-> NULL, updates |-> NULL, result |-> NotReturned]
MergeIdle == mergeCall = NoMergeCall

NoRequest == [pc |-> "idle", secret |-> NULL, authorization |-> NULL, userId |-> NULL,
              taskLimit |-> NULL, response |-> NotReturned]
RouteIdle == request = NoRequest

RunnerIdle ==
    /\ runners = [r \in Runners |-> RunnerAtRest]
    /\ claimed = <<>>
    /\ effects = {}

(***************************************************************************)
(* SpecTool: one call of executeAgentTool, one action per phase.           *)
(***************************************************************************)
ToolNames == {agentTools[i].name : i \in 1..Len(agentTools)} \cup {"deleteEverything"}

HandlerOutcomes ==
    { HandlerReturn(JObj(<<Entry("id", JStr("r1"))>>)),
      HandlerThrowError("invalid recipient"),
      HandlerThrowValue }

NoSchedCall ==
    [userId |-> "", summary |-> "", runAt |-> InvalidIsoText, metadata |-> NULL, timeZone |-> ""]

SchedIdle ==
    /\ schedCall = NoSchedCall
    /\ schedReturn = NotReturned

NoLocals == [tool |-> NULL, parsedInput |-> NULL, validatedInput |-> NULL]
NoToolCall == [name |-> "", rawArguments |-> "", outcome |-> HandlerThrowValue]

ToolIdle ==
    /\ toolCall = NoToolCall
    /\ toolPc = "idle"
    /\ toolLocals = NoLocals
    /\ toolTrace = <<>>
    /\ toolReturn = NotReturned
    /\ toolThrown = FALSE

InitTool ==
    /\ clock = 0 /\ tasks = <<>> /\ steps = <<>> /\ contexts = <<>>
    /\ instructions = <<>> /\ evaluations = <<>>
    /\ SchedIdle /\ MatcherIdle /\ RunnerIdle /\ CycleIdle /\ StreamIdle /\ CrmIdle /\ ApiIdle /\ MergeIdle /\ RouteIdle
    /\ toolCall \in [name : ToolNames, rawArguments : RawArguments, outcome : HandlerOutcomes]
    /\ toolPc = "lookup"
    /\ toolLocals = NoLocals
    /\ toolTrace = <<>>
    /\ toolReturn = NotReturned
    /\ toolThrown = FALSE

(* line 1094-1098 *)
ToolLookup ==
    /\ toolPc = "lookup"
    /\ LET tool == LookupTool(toolCall.name)
       IN  /\ toolLocals' = [toolLocals EXCEPT !.tool = tool]
           /\ toolTrace' = Append(toolTrace, "lookup")
           /\ IF tool = NULL
              THEN /\ toolReturn' = Failure("Unknown tool: " \o toolCall.name)
                   /\ toolPc' = "done"
              ELSE /\ toolReturn' = toolReturn
                   /\ toolPc' = "parse"
    /\ UNCHANGED <<toolCall, toolThrown, notTool>>

(* lines 1100-1111 *)
ToolParse ==
    /\ toolPc = "parse"
    /\ LET parsed == ParseArguments(toolCall.rawArguments)
       IN  /\ toolTrace' = Append(toolTrace, "parse")
           /\ IF parsed.ok
              THEN /\ toolLocals' = [toolLocals EXCEPT !.parsedInput = parsed.value]
                   /\ toolReturn' = toolReturn
                   /\ toolPc' = "validate"
              ELSE /\ toolLocals' = toolLocals
                   /\ toolReturn' = Failure(parsed.message)
                   /\ toolPc' = "done"
    /\ UNCHANGED <<toolCall, toolThrown, notTool>>

(* lines 1113-1122 *)
ToolValidate ==
    /\ toolPc = "validate"
    /\ LET validated == ValidateInput(toolLocals.tool, toolLocals.parsedInput)
       IN  /\ toolTrace' = Append(toolTrace, "validate")
           /\ IF validated.ok
              THEN /\ toolLocals' = [toolLocals EXCEPT !.validatedInput = validated.value]
                   /\ toolReturn' = toolReturn
                   /\ toolPc' = "invoke"
              ELSE /\ toolLocals' = toolLocals
                   /\ toolReturn' = Failure(validated.message)
                   /\ toolPc' = "done"
    /\ UNCHANGED <<toolCall, toolThrown, notTool>>

(* lines 1124-1130 *)
ToolInvoke ==
    /\ toolPc = "invoke"
    /\ LET call == InvokeHandler(toolCall.outcome)
       IN  /\ toolTrace' = Append(toolTrace, "handler")
           /\ toolReturn' = call.envelope
           /\ toolThrown' = call.threw
           /\ toolPc' = "done"
    /\ UNCHANGED <<toolCall, toolLocals, notTool>>

NextTool == ToolLookup \/ ToolParse \/ ToolValidate \/ ToolInvoke


(***************************************************************************)
(* SpecSched: one call of the scheduleFollowUpTask tool handler.           *)
(***************************************************************************)
MinNow == 24
MaxNow == 56
MaxRunAt == 60

RunAtTexts ==
    {IsoText(w, 0) : w \in 0..MaxRunAt} \cup {IsoText(w, -4) : w \in {20, 24, 40}}

MetadataInputs ==
    { NULL,
      JObj(<<Entry("timezone", JStr("America/New_York"))>>),
      JObj(<<Entry("timeZone", JStr(" Asia/Tokyo ")), Entry("client", JStr("acme"))>>),
      JObj(<<Entry("timezone", JStr("Mars/Olympus")),
             Entry("followUpScheduling", JObj(<<Entry("timeZone", JStr("Asia/Tokyo"))>>))>>) }

ContextTimeZones == {"", "America/New_York", " UTC", "Mars/Olympus"}

InitSched ==
    /\ clock \in MinNow..MaxNow
    /\ schedCall \in [userId : {"u1"}, summary : {"Call back"}, runAt : RunAtTexts,
                      metadata : MetadataInputs, timeZone : ContextTimeZones]
    /\ schedReturn = NotReturned
    /\ tasks = <<>> /\ steps = <<>> /\ contexts = <<>>
    /\ instructions = <<>> /\ evaluations = <<>>
    /\ ToolIdle /\ MatcherIdle /\ RunnerIdle /\ CycleIdle /\ StreamIdle /\ CrmIdle /\ ApiIdle /\ MergeIdle /\ RouteIdle

(* lines 801-817 of poller.ts *)
ScheduleFollowUpHandler ==
    /\ schedReturn = NotReturned
    /\ schedCall # NoSchedCall
    /\ LET timeZone == resolveTimeZone(schedCall.metadata, schedCall.timeZone)
           scheduling == buildSchedulingMetadata(schedCall.runAt, timeZone, clock)
           metadataPayload == mergeMetadata(schedCall.metadata, scheduling)
           created == scheduleFollowUpTask(DB, schedCall.userId,
                          [summary |-> schedCall.summary, runAt |-> scheduling.scheduled,
                           metadata |-> metadataPayload], clock)
       IN  IF scheduling.threw
           THEN /\ schedReturn' = [threw |-> TRUE, taskId |-> 0, scheduledFor |-> InvalidIsoText,
                                   timeZone |-> timeZone]
                /\ UNCHANGED storeVars
           ELSE /\ tasks' = created.db.tasks
                /\ steps' = created.db.steps
                /\ contexts' = created.db.contexts
                /\ UNCHANGED <<instructions, evaluations>>
                /\ schedReturn' = [threw |-> FALSE, taskId |-> created.taskId,
                                   scheduledFor |-> ToISOString(scheduling.scheduled),
                                   timeZone |-> timeZone]
    /\ UNCHANGED <<clock, schedCall, notSched>>

NextSched == ScheduleFollowUpHandler

(***************************************************************************)
(* SpecMatcher: calls of evaluateInstructionsForEvent, one after another,  *)
(* each transaction written step by step and open to failure at any step.  *)
(***************************************************************************)
MaxEvents == 2
MaxClock == 1

InitialInstructions(thirdStatus) ==
    << InstructionRow(1, "u1", "Reply to new mail", "Answer every new message",
                      JArr(<<"gmail.message_created">>), "active"),
       InstructionRow(2, "u1", "Log the meeting", "Add a note to the contact",
                      JArr(<<"calendar.event_created", "gmail.message_created",
                             "calendar.event_created">>), "active"),
       InstructionRow(3, "u1", "Retired rule", "Forward to compliance",
                      JArr(<<"gmail.message_created">>), thirdStatus),
       InstructionRow(4, "u2", "Other advisor's rule", "Archive the message",
                      JArr(<<"gmail.message_created">>), "active"),
       InstructionRow(5, "u1", "Wildcard rule", "Tag the sender",
                      JArr(<<"gmail.*", "gmail.message">>), "active"),
       InstructionRow(6, "u1", "Rule without triggers", "Never fires", NULL, "active") >>

MatcherUsers == {"u1", "u2"}

MatcherEvents ==
    { [type |-> "gmail.message_created",
       payload |-> JObj(<<Entry("messageId", JStr("m1"))>>), occurredAt |-> JNum(1)],
      [type |-> "gmail.message_created", payload |-> NULL, occurredAt |-> NULL],
      [type |-> "calendar.event_created",
       payload |-> JObj(<<Entry("eventId", JStr("e1"))>>), occurredAt |-> JNum(0)],
      [type |-> "gmail.message", payload |-> NULL, occurredAt |-> JNum(2)] }

InitMatcher ==
    /\ clock = 0
    /\ tasks = <<>> /\ steps = <<>> /\ contexts = <<>> /\ evaluations = <<>>
    /\ instructions \in {InitialInstructions(st) : st \in {"paused", "archived"}}
    /\ MatcherIdle
    /\ ToolIdle /\ SchedIdle /\ RunnerIdle /\ CycleIdle /\ StreamIdle /\ CrmIdle /\ ApiIdle /\ MergeIdle /\ RouteIdle

SetDB(db) ==
    /\ instructions' = db.instructions
    /\ evaluations' = db.evaluations
    /\ tasks' = db.tasks
    /\ contexts' = db.contexts
    /\ steps' = db.steps

(* the calls that have settled, in order: whose, for which event, how *)
SettledCall(status) == [userId |-> matcher.userId, event |-> matcher.event, status |-> status]

Tick ==
    /\ clock < MaxClock
    /\ clock' = clock + 1
    /\ UNCHANGED <<storeVars, matcherVars, notMatcher>>

(* lines 39-52: the query, the filter, the empty result list *)
EvaluateStart(userId, event) ==
    /\ matcher.pc \in {"idle", "returned", "thrown"}
    /\ eventsSeen < MaxEvents
    /\ eventsSeen' = eventsSeen + 1
    /\ matcher' = [MatcherAtRest EXCEPT
                      !.pc = "loop", !.userId = userId, !.event = event,
                      !.matched = MatchInstructions(DB, userId, event),
                      !.before = DB,
                      !.calls = matcher.calls]
    /\ UNCHANGED <<clock, storeVars, notMatcher>>

MatcherInTx(stage) ==
    /\ matcher.pc = "loop"
    /\ matcher.idx <= Len(matcher.matched)
    /\ matcher.stage = stage

MatcherWrite(w, nextStage) ==
    LET r == TxWrite(DB, matcher.pending, w)
    IN  /\ SetDB(r.db)
        /\ matcher' = [matcher EXCEPT !.pending = r.pending, !.stage = nextStage,
                          !.evaluationId = IF w.table = "evaluations" THEN w.row.id ELSE @,
                          !.taskId = IF w.table = "tasks" THEN w.row.id ELSE @]
        /\ UNCHANGED <<clock, eventsSeen, notMatcher>>

(* lines 54-64 *)
TxCreateEvaluation ==
    /\ MatcherInTx("none")
    /\ MatcherWrite(Write("evaluations", "create",
                          NewEvaluation(DB, matcher.pending, matcher.userId,
                                        matcher.matched[matcher.idx], matcher.event)),
                    "evaluation")

(* lines 66-71 *)
TxTouchInstruction ==
    /\ MatcherInTx("evaluation")
    /\ MatcherWrite(Write("instructions", "touchInstruction",
                          [id |-> matcher.matched[matcher.idx].id,
                           lastEvaluatedAt |-> TouchedAt(matcher.matched[matcher.idx],
                                                         matcher.event, clock)]),
                    "touched")

(* lines 73-86 *)
TxCreateTask ==
    /\ MatcherInTx("touched")
    /\ MatcherWrite(Write("tasks", "create",
                          NewInstructionTask(DB, matcher.pending, matcher.userId,
                                             matcher.matched[matcher.idx], matcher.event,
                                             matcher.evaluationId, clock)),
                    IF matcher.event.payload # NULL THEN "task" ELSE "context")

(* lines 88-96 *)
TxCreateContext ==
    /\ MatcherInTx("task")
    /\ MatcherWrite(Write("contexts", "create",
                          ContextRow(matcher.taskId, "event", matcher.event.payload)),
                    "context")

(* lines 98-109 *)
TxCreateStep ==
    /\ MatcherInTx("context")
    /\ MatcherWrite(Write("steps", "create",
                          NewSeedStep(DB, matcher.pending, matcher.taskId,
                                      matcher.matched[matcher.idx], matcher.event)),
                    "step")

(* lines 111-114: the transaction commits, the pair joins the result list *)
TxCommit ==
    /\ MatcherInTx("step")
    /\ SetDB(ApplyWrites(DB, matcher.pending))
    /\ matcher' = [matcher EXCEPT
                      !.pending = <<>>, !.stage = "none", !.idx = @ + 1,
                      !.evaluations = Append(@, [instructionId |-> matcher.matched[matcher.idx].id,
                                                 taskId |-> matcher.taskId])]
    /\ UNCHANGED <<clock, eventsSeen, notMatcher>>

(* a statement of the transaction fails: it rolls back and the call throws *)
TxAbort ==
    /\ matcher.pc = "loop"
    /\ matcher.idx <= Len(matcher.matched)
    /\ matcher' = [matcher EXCEPT !.pending = <<>>, !.stage = "none", !.pc = "thrown",
                                   !.failedAt = matcher.stage,
                                   !.calls = Append(@, SettledCall("thrown"))]
    /\ UNCHANGED <<clock, storeVars, eventsSeen, notMatcher>>

(* line 117 *)
EvaluateReturn ==
    /\ matcher.pc = "loop"
    /\ matcher.idx > Len(matcher.matched)
    /\ matcher' = [matcher EXCEPT !.pc = "returned",
                                   !.calls = Append(@, SettledCall("returned"))]
    /\ UNCHANGED <<clock, storeVars, eventsSeen, notMatcher>>

NextMatcher ==
    \/ Tick
    \/ \E userId \in MatcherUsers, event \in MatcherEvents : EvaluateStart(userId, event)
    \/ TxCreateEvaluation
    \/ TxTouchInstruction
    \/ TxCreateTask
    \/ TxCreateContext
    \/ TxCreateStep
    \/ TxCommit
    \/ TxAbort
    \/ EvaluateReturn

(***************************************************************************)
(* The specifications.                                                     *)
(***************************************************************************)
(***************************************************************************)
(* Spec: overlapping runners of processAgentTaskById over a store that     *)
(* already holds tasks.  Each step of a runner is one await of the code;   *)
(* the model's answers and the tool handlers' outcomes are the             *)
(* environment's, fixed when the automation starts.  What a runner keeps   *)
(* is what is in scope: the catch block has the task id and the error.     *)
(***************************************************************************)

(* the rounds the model answers with *)
MessageRound(content) == [type |-> "message", content |-> content, toolCalls |-> <<>>]
ToolRound(content, toolCalls) == [type |-> "tool_calls", content |-> content, toolCalls |-> toolCalls]
Call(id, name, arguments, outcome) ==
    [id |-> id, name |-> name, arguments |-> arguments, outcome |-> outcome]

ShortText == "Replied to the client and logged the note."
Sentence == "The advisor asked for a follow-up with the client next week. "
LongText == Sentence \o Sentence \o Sentence \o "Done."

SendEmailArguments ==
    JSONStringify(JObj(<<Entry("to", JArr(<<JStr("client@example.com")>>)),
                         Entry("subject", JStr("Hello")), Entry("text", JStr("Hi"))>>))

FailingToolRound ==
    ToolRound("", << Call("call_a", "sendEmail", SendEmailArguments,
                          HandlerThrowError("invalid recipient")),
                     Call("call_b", "listInstructions", "",
                          HandlerReturn(JArr(<<>>))) >>)

EndlessToolRounds ==
    [i \in 1..maxIterations |->
        ToolRound("Checking", << Call("call_" \o ToString(i), "listInstructions",
                                      "{\"status\":\"active\"}", HandlerReturn(JArr(<<>>))) >>)]

Scripts ==
    { << MessageRound(ShortText) >>,
      << MessageRound(LongText) >>,
      << MessageRound("  ") >>,
      << FailingToolRound, MessageRound("The email could not be sent.") >>,
      EndlessToolRounds \o << MessageRound("Never read.") >> }

RetrievalSections == { << "Relevant email snippets:\n- Hello from client@example.com" >> }

(* the store the runners start from: a task the matcher created, in one of *)
(* the states the code leaves such a task in, and a task without steps     *)
SeedEvent ==
    [type |-> "gmail.message_created", payload |-> JObj(<<Entry("messageId", JStr("m1"))>>),
     occurredAt |-> NULL]

SeedInstruction ==
    [InstructionRow(1, "u1", "Reply to new mail", "Answer every new message",
                    JArr(<<"gmail.message_created">>), "active")
        EXCEPT !.lastEvaluatedAt = JNum(0)]

SeedOutput == JObj(<<Entry("assistant", JStr(ShortText)), Entry("tools", JArr(<<>>))>>)

SeedTask(taskStatus) ==
    LET row == NewInstructionTask(NoDB, <<>>, "u1", SeedInstruction, SeedEvent, 1, 0)
    IN  CASE taskStatus \in {"pending", "waiting", "cancelled"} -> [row EXCEPT !.status = taskStatus]
          [] taskStatus = "running" -> [row EXCEPT !.status = taskStatus, !.startedAt = JNum(0)]
          [] taskStatus = "completed" ->
                [row EXCEPT !.status = taskStatus, !.startedAt = JNum(0), !.completedAt = JNum(0),
                            !.summary = JStr(ShortText)]
          [] taskStatus = "failed" ->
                [row EXCEPT !.status = taskStatus, !.startedAt = JNum(0),
                            !.errorMessage = JStr("Model unavailable")]

SeedStep(stepStatus) ==
    LET row == NewSeedStep(NoDB, <<>>, 1, SeedInstruction, SeedEvent)
    IN  CASE stepStatus = "pending" -> row
          [] stepStatus = "running" -> [row EXCEPT !.status = stepStatus, !.startedAt = JNum(0)]
          [] stepStatus = "completed" ->
                [row EXCEPT !.status = stepStatus, !.startedAt = JNum(0), !.completedAt = JNum(0),
                            !.output = SeedOutput]
          [] stepStatus = "failed" ->
                [row EXCEPT !.status = stepStatus, !.startedAt = JNum(0), !.completedAt = JNum(0),
                            !.error = JStr("Model unavailable")]

FollowUpInput ==
    [instructionId |-> NULL, type |-> "followUp", summary |-> JStr("Call back"),
     scheduledFor |-> JNum(1), metadata |-> NULL, context |-> <<>>, steps |-> <<>>]
ManualInput ==
    [instructionId |-> NULL, type |-> "manual", summary |-> NULL,
     scheduledFor |-> NULL, metadata |-> NULL, context |-> <<>>, steps |-> <<>>]

(* the first task's status, its step's status, the second task and its status *)
SeedStores ==
    { <<"pending", "pending", FollowUpInput, "pending">>,
      <<"waiting", "pending", FollowUpInput, "failed">>,
      <<"waiting", "running", ManualInput, "cancelled">>,
      <<"running", "running", ManualInput, "pending">>,
      <<"completed", "completed", FollowUpInput, "waiting">>,
      <<"failed", "failed", ManualInput, "pending">>,
      <<"cancelled", "pending", FollowUpInput, "pending">> }

(* a task without steps that was cancelled, or failed before its first step *)
WithStatus(db, taskId, taskStatus) ==
    LET data ==
            CASE taskStatus \in {"pending", "waiting", "cancelled"} -> [status |-> taskStatus]
              [] taskStatus = "failed" ->
                    [status |-> taskStatus, startedAt |-> JNum(0),
                     errorMessage |-> JStr("Database unavailable")]
    IN  [db EXCEPT !.tasks = UpdateRow(@, taskId, data)]

InitialStore(seed) ==
    WithStatus(createAgentTask(
        [instructions |-> <<SeedInstruction>>,
         evaluations |-> <<NewEvaluation(NoDB, <<>>, "u1", SeedInstruction, SeedEvent)>>,
         tasks |-> <<SeedTask(seed[1])>>,
         contexts |-> <<ContextRow(1, "event", SeedEvent.payload)>>,
         steps |-> <<SeedStep(seed[2])>>],
        "u1", seed[3], 0).db, 2, seed[4])

Init ==
    /\ clock = 1
    /\ \E seed \in SeedStores :
          LET db == InitialStore(seed)
          IN  /\ instructions = db.instructions
              /\ evaluations = db.evaluations
              /\ tasks = db.tasks
              /\ contexts = db.contexts
              /\ steps = db.steps
    /\ RunnerIdle
    /\ ToolIdle /\ SchedIdle /\ MatcherIdle /\ CycleIdle /\ StreamIdle /\ CrmIdle /\ ApiIdle /\ MergeIdle /\ RouteIdle

SetRunner(r, next) == runners' = [runners EXCEPT ![r] = next]

RunnerResult(taskId, status, error) == [taskId |-> taskId, status |-> status, error |-> error]

(* lines 171-186: the claim, and the skipped return when no row was affected *)
ClaimCall(r, taskId) ==
    /\ runners[r].pc \in {"idle", "returned", "threw"}
    /\ LET claim == ClaimTask(DB, taskId, clock)
       IN  /\ SetDB(claim.db)
           /\ IF claim.count = 0
              THEN /\ SetRunner(r, [RunnerAtRest EXCEPT
                                       !.pc = "returned", !.taskId = taskId,
                                       !.result = RunnerResult(taskId, "skipped", "")])
                   /\ UNCHANGED claimed
              ELSE /\ SetRunner(r, [RunnerAtRest EXCEPT
                                       !.pc = "load", !.taskId = taskId])
                   /\ claimed' = Append(claimed, [taskId |-> taskId, runner |-> r])

(* a call of processAgentTaskById by any caller *)
Start(r, taskId) ==
    /\ ClaimCall(r, taskId)
    /\ UNCHANGED <<clock, effects, notRunner>>

(* lines 189-208 *)
Load(r) ==
    /\ runners[r].pc = "load"
    /\ IF ~HasId(tasks, runners[r].taskId)
       THEN SetRunner(r, [runners[r] EXCEPT
                !.pc = "returned",
                !.result = RunnerResult(runners[r].taskId, "failed", "Task not found after claim")])
       ELSE LET task == TaskWithRelations(DB, runners[r].taskId)
                nextStep == FindOutstandingStep(task.steps)
            IN  SetRunner(r, [runners[r] EXCEPT
                    !.task = task,
                    !.nextStep = IF nextStep = NULL THEN NoStepRow ELSE nextStep,
                    !.pc = IF nextStep = NULL THEN "createStep"
                           ELSE IF nextStep.status = "pending" THEN "startStep"
                           ELSE "retrieve"])
    /\ UNCHANGED <<clock, storeVars, claimed, effects, notRunner>>

(* lines 210-219 *)
CreateStep(r) ==
    /\ runners[r].pc = "createStep"
    /\ LET row == NewRunnerStep(DB, runners[r].task)
       IN  /\ steps' = Append(steps, row)
           /\ SetRunner(r, [runners[r] EXCEPT !.nextStep = row, !.pc = "startStep"])
    /\ UNCHANGED <<clock, tasks, contexts, instructions, evaluations, claimed, effects, notRunner>>

(* lines 221-229 *)
StartStep(r) ==
    /\ runners[r].pc = "startStep"
    /\ LET data == [status |-> "running", startedAt |-> JNum(clock)]
       IN  /\ steps' = UpdateRow(steps, runners[r].nextStep.id, data)
           /\ SetRunner(r, [runners[r] EXCEPT
                               !.nextStep = RowById(steps', runners[r].nextStep.id),
                               !.pc = "retrieve"])
    /\ UNCHANGED <<clock, tasks, contexts, instructions, evaluations, claimed, effects, notRunner>>

(* lines 303-319 *)
Retrieve(r, retrieval, script) ==
    /\ runners[r].pc = "retrieve"
    /\ SetRunner(r, [runners[r] EXCEPT
          !.chatMessages =
              << ChatMessage("system", AUTOMATION_SYSTEM_PROMPT),
                 ChatMessage("user", buildTaskPrompt(runners[r].task, runners[r].nextStep,
                                                     retrieval)) >>,
          !.script = script,
          !.pc = "model"])
    /\ UNCHANGED <<clock, storeVars, claimed, effects, notRunner>>

(* a loop that allows one more round than the budget *)
AfterRoundOverBudget(runner) ==
    IF runner.iteration + 1 < maxIterations + 1
    THEN [runner EXCEPT !.iteration = @ + 1, !.pc = "model"]
    ELSE [runner EXCEPT !.iteration = @ + 1, !.pc = "completeStep",
                        !.execution = TaskExecutionResult("", runner.executedTools)]

(* lines 333-334, 379-399: the next round, or the end of the loop *)
AfterRound(runner) ==
    IF runner.iteration + 1 < maxIterations
    THEN [runner EXCEPT !.iteration = @ + 1, !.pc = "model"]
    ELSE [runner EXCEPT !.iteration = @ + 1, !.pc = "completeStep",
                        !.execution = TaskExecutionResult("", runner.executedTools)]

(* lines 335-348, 382-399 *)
ModelRound(r) ==
    /\ runners[r].pc = "model"
    /\ LET round == runners[r].script[runners[r].iteration + 1]
       IN  /\ effects' = effects \cup
                  {[taskId |-> runners[r].taskId, runner |-> r, kind |-> "model"]}
           /\ IF round.type = "tool_calls"
              THEN LET pushed == [runners[r] EXCEPT
                                     !.chatMessages = Append(@,
                                         AssistantToolCalls(round.content,
                                             [i \in 1..Len(round.toolCalls) |->
                                                 ToolCallOf(round.toolCalls[i])])),
                                     !.toolQueue = round.toolCalls]
                   IN  SetRunner(r, IF Len(round.toolCalls) = 0 THEN AfterRound(pushed)
                                    ELSE [pushed EXCEPT !.pc = "tools"])
              ELSE SetRunner(r, [runners[r] EXCEPT
                      !.pc = "completeStep",
                      !.execution = TaskExecutionResult(round.content, runners[r].executedTools)])
    /\ UNCHANGED <<clock, storeVars, claimed, notRunner>>

(* lines 362-377: the record of the call and the tool message *)
AfterTool(runner, call, argsText, execution) ==
    IF execution.threw
    THEN [RunnerAtRest EXCEPT
             !.pc = "failTask", !.taskId = runner.taskId, !.failedAt = "tool",
             !.thrown = [isError |-> call.outcome.isError, message |-> call.outcome.message]]
    ELSE LET pushed == [runner EXCEPT
                !.executedTools = Append(@, ExecutedTool(call, argsText, execution.envelope)),
                !.chatMessages = Append(@,
                    ToolMessage(call.id, call.name,
                                JSONStringify(EnvelopeJson(execution.envelope)))),
                !.toolQueue = Tail(@)]
         IN  IF Len(pushed.toolQueue) = 0 THEN AfterRound(pushed) ELSE pushed

ToolEffects(runner, r, execution) ==
    IF execution.invoked
    THEN {[taskId |-> runner.taskId, runner |-> r, kind |-> "tool"]}
    ELSE {}

(* line 352 *)
ArgsText(call) == IF call.arguments = "" THEN "{}" ELSE call.arguments

(* lines 350-377 *)
ExecuteTool(r) ==
    /\ runners[r].pc = "tools"
    /\ \E execution \in {ExecuteAgentTool(Head(runners[r].toolQueue).name,
                                          ArgsText(Head(runners[r].toolQueue)),
                                          Head(runners[r].toolQueue).outcome)} :
          /\ effects' = effects \cup ToolEffects(runners[r], r, execution)
          /\ SetRunner(r, AfterTool(runners[r], Head(runners[r].toolQueue),
                                    ArgsText(Head(runners[r].toolQueue)), execution))
    /\ UNCHANGED <<clock, storeVars, claimed, notRunner>>

(* lines 233-241 *)
CompleteStep(r) ==
    /\ runners[r].pc = "completeStep"
    /\ LET data == [status |-> "completed", completedAt |-> JNum(clock),
                    output |-> runners[r].execution.output, error |-> NULL]
       IN  steps' = UpdateRow(steps, runners[r].nextStep.id, data)
    /\ SetRunner(r, [runners[r] EXCEPT !.pc = "completeTask"])
    /\ UNCHANGED <<clock, tasks, contexts, instructions, evaluations, claimed, effects, notRunner>>

(* lines 243-253 *)
CompleteTask(r) ==
    /\ runners[r].pc = "completeTask"
    /\ LET data ==
              [status |-> "completed", completedAt |-> JNum(clock),
               summary |-> JStr(runners[r].execution.summary),
               metadata |-> mergeTaskMetadata(runners[r].task.row.metadata,
                                              runners[r].execution.taskMetadata)]
       IN  tasks' = UpdateRow(tasks, runners[r].task.row.id, data)
    /\ SetRunner(r, [runners[r] EXCEPT
          !.pc = "returned",
          !.result = RunnerResult(runners[r].task.row.id, "completed", "")])
    /\ UNCHANGED <<clock, steps, contexts, instructions, evaluations, claimed, effects, notRunner>>

(* what an await inside the try block can reject with *)
StoreAwaits == {"load", "createStep", "startStep", "completeStep", "completeTask"}
ServiceAwaits == {"retrieve", "model"}
StoreErrors == {Thrown("Database unavailable")}
ServiceErrors == {Thrown("Model unavailable"), ThrownValue}

(* line 254: an await of the try block rejects *)
Throw(r, thrown) ==
    /\ \/ runners[r].pc \in StoreAwaits /\ thrown \in StoreErrors
       \/ runners[r].pc \in ServiceAwaits /\ thrown \in ServiceErrors
    /\ SetRunner(r, [RunnerAtRest EXCEPT !.pc = "failTask", !.taskId = runners[r].taskId,
                                         !.thrown = thrown, !.failedAt = "await"])
    /\ UNCHANGED <<clock, storeVars, claimed, effects, notRunner>>

(* lines 255-263 *)
CatchFailTask(r) ==
    /\ runners[r].pc = "failTask"
    /\ SetDB(FailTask(DB, runners[r].taskId, CaughtMessage(runners[r].thrown)))
    /\ SetRunner(r, [runners[r] EXCEPT !.pc = "failSteps"])
    /\ UNCHANGED <<clock, claimed, effects, notRunner>>

(* lines 265-277 *)
CatchFailSteps(r) ==
    /\ runners[r].pc = "failSteps"
    /\ SetDB(FailRunningSteps(DB, runners[r].taskId, CaughtMessage(runners[r].thrown), clock))
    /\ SetRunner(r, [runners[r] EXCEPT
          !.pc = "returned",
          !.result = RunnerResult(runners[r].taskId, "failed",
                                  CaughtMessage(runners[r].thrown))])
    /\ UNCHANGED <<clock, claimed, effects, notRunner>>

(* an await of the catch block rejects: the call rejects instead of returning *)
CatchThrow(r) ==
    /\ runners[r].pc \in {"failTask", "failSteps"}
    /\ SetRunner(r, [runners[r] EXCEPT !.pc = "threw"])
    /\ UNCHANGED <<clock, storeVars, claimed, effects, notRunner>>

TaskIds == {1, 2}

Next ==
    \/ \E r \in Runners, taskId \in TaskIds : Start(r, taskId)
    \/ \E r \in Runners : Load(r)
    \/ \E r \in Runners : CreateStep(r)
    \/ \E r \in Runners : StartStep(r)
    \/ \E r \in Runners, retrieval \in RetrievalSections, script \in Scripts :
          Retrieve(r, retrieval, script)
    \/ \E r \in Runners : ModelRound(r)
    \/ \E r \in Runners : ExecuteTool(r)
    \/ \E r \in Runners : CompleteStep(r)
    \/ \E r \in Runners : CompleteTask(r)
    \/ \E r \in Runners, thrown \in StoreErrors \cup ServiceErrors : Throw(r, thrown)
    \/ \E r \in Runners : CatchFailTask(r)
    \/ \E r \in Runners : CatchFailSteps(r)
    \/ \E r \in Runners : CatchThrow(r)

(* the process of a runner dies between its claim and the write that ends  *)
(* the task (lines 189-251, or the catch block before line 256): nothing   *)
(* more of the call runs, its catch block included                         *)
Crash(r) ==
    /\ runners[r].pc \in {"load", "createStep", "startStep", "retrieve", "model", "tools",
                          "completeStep", "completeTask", "failTask"}
    /\ SetRunner(r, [runners[r] EXCEPT !.pc = "crashed"])
    /\ UNCHANGED <<clock, storeVars, claimed, effects, notRunner>>

NextCrash ==
    \/ Next
    \/ \E r \in Runners : Crash(r)


(***************************************************************************)
(* The automation cycle: runAutomationCycle (poller.ts lines 29-129) and   *)
(* processPendingAgentTasks (embeddings.ts lines 134-168).  One cycle runs *)
(* its tasks through the runner CycleRunner.                               *)
(***************************************************************************)
CycleRunner == "r1"

(* what a sync adapter returns, and what the orchestrator records for a throw *)
SyncCounts == [t |-> "counts", processed |-> 1, created |-> 1, updated |-> 0]
SyncError(message) == [t |-> "error", error |-> message]

(* a catch that records the fixed text whatever was thrown *)
SyncFailureGeneric(thrown, fallback) == SyncError(fallback)

(* lines 91, 100, 112: error instanceof Error ? error.message : fallback *)
SyncFailure(thrown, fallback) ==
    SyncError(IF thrown.isError THEN thrown.message ELSE fallback)

(* instructions.ts lines 54-114: one matched instruction, its transaction committed *)
MatchCommitted(db, userId, instruction, event, now) ==
    LET evaluation == NewEvaluation(db, <<>>, userId, instruction, event)
        task == NewInstructionTask(db, <<>>, userId, instruction, event, evaluation.id, now)
        touch == [id |-> instruction.id, lastEvaluatedAt |-> TouchedAt(instruction, event, now)]
        head == << Write("evaluations", "create", evaluation),
                   Write("instructions", "touchInstruction", touch),
                   Write("tasks", "create", task) >>
        context == IF event.payload # NULL
                   THEN << Write("contexts", "create", ContextRow(task.id, "event", event.payload)) >>
                   ELSE << >>
        step == << Write("steps", "create", NewSeedStep(db, <<>>, task.id, instruction, event)) >>
    IN  ApplyWrites(db, head \o context \o step)

RECURSIVE EvaluateCommitted(_, _, _, _, _)
EvaluateCommitted(db, userId, matched, event, now) ==
    IF Len(matched) = 0 THEN db
    ELSE EvaluateCommitted(MatchCommitted(db, userId, Head(matched), event, now),
                           userId, Tail(matched), event, now)

(* the events a sync adapter hands to evaluateInstructionsForEvent before it settles *)
RECURSIVE SyncEvents(_, _, _, _)
SyncEvents(db, userId, events, now) ==
    IF Len(events) = 0 THEN db
    ELSE SyncEvents(EvaluateCommitted(db, userId, MatchInstructions(db, userId, Head(events)),
                                      Head(events), now),
                    userId, Tail(events), now)

(* one run of a sync adapter: the events it saw, and how it settled *)
SyncRun(events, threw, thrown) == [events |-> events, threw |-> threw, thrown |-> thrown]
CalendarEvent ==
    [type |-> "calendar.event_created", payload |-> JObj(<<Entry("eventId", JStr("e1"))>>),
     occurredAt |-> NULL]
GmailSyncs ==
    { SyncRun(<<>>, FALSE, ThrownValue),
      SyncRun(<<SeedEvent>>, FALSE, ThrownValue),
      SyncRun(<<SeedEvent>>, TRUE, Thrown("Gmail quota exceeded")),
      SyncRun(<<>>, TRUE, ThrownValue) }
CalendarSyncs ==
    { SyncRun(<<CalendarEvent>>, FALSE, ThrownValue),
      SyncRun(<<>>, TRUE, Thrown("Calendar unavailable")) }
HubspotSyncs ==
    { SyncRun(<<>>, FALSE, ThrownValue),
      SyncRun(<<>>, TRUE, Thrown("HubSpot token expired")),
      SyncRun(<<>>, TRUE, ThrownValue) }

(* lines 54-71: the snapshot of one user *)
IntegrationSnapshot(credentials, userId) ==
    [google  |-> \E i \in 1..Len(credentials) :
                    credentials[i].userId = userId /\ credentials[i].provider = "google",
     hubspot |-> \E i \in 1..Len(credentials) :
                    credentials[i].userId = userId /\ credentials[i].provider = "hubspot"]

(* lines 76-84, 105: a fresh outcome, and the first thing to do for the user *)
BeginUser(c, idx) ==
    LET integrations == c.integrationMap[idx]
    IN  [c EXCEPT !.idx = idx,
                  !.outcome = [NoOutcome EXCEPT !.userId = c.userIds[idx],
                                                !.integrations = integrations],
                  !.dueTasks = <<>>, !.results = <<>>, !.selected = <<>>,
                  !.pc = IF integrations.google THEN "gmail"
                         ELSE IF integrations.hubspot THEN "hubspot" ELSE "findDue"]

(* embeddings.ts line 156: scheduledFor ascending with nulls last, then createdAt *)
DueBefore(a, b) ==
    \/ a.scheduledFor # NULL /\ b.scheduledFor = NULL
    \/ a.scheduledFor # NULL /\ b.scheduledFor # NULL /\ a.scheduledFor.n < b.scheduledFor.n
    \/ /\ a.scheduledFor = b.scheduledFor
       /\ \/ a.createdAt.n < b.createdAt.n
          \/ a.createdAt.n = b.createdAt.n /\ a.id <= b.id

RECURSIVE SortDue(_)
SortDue(rowSet) ==
    IF rowSet = {} THEN <<>>
    ELSE LET first == CHOOSE r \in rowSet : \A q \in rowSet : DueBefore(r, q)
         IN  <<first.id>> \o SortDue(rowSet \ {first})

(* a query that forgets the scheduledFor filter *)
DueTasksAnyTime(db, userId, now, limit) ==
    LET due == {db.tasks[i] : i \in {j \in 1..Len(db.tasks) :
                    /\ db.tasks[j].status \in {"pending", "waiting"}
                    /\ db.tasks[j].userId = userId}}
    IN  Slice(SortDue(due), limit)

(* embeddings.ts lines 138-158: the ids of the user's due tasks, at most limit *)
DueTasks(db, userId, now, limit) ==
    LET due == {db.tasks[i] : i \in {j \in 1..Len(db.tasks) :
                    /\ db.tasks[j].status \in {"pending", "waiting"}
                    /\ db.tasks[j].userId = userId
                    /\ \/ db.tasks[j].scheduledFor = NULL
                       \/ db.tasks[j].scheduledFor.n <= now}}
    IN  Slice(SortDue(due), limit)

(* the store a cycle starts from: two users with one due task each, and   *)
(* who has connected what; the answers of the model during a cycle        *)
Credential(userId, provider) == [userId |-> userId, provider |-> provider]
CredentialSets ==
    { << Credential("u1", "google") >>,
      << Credential("u1", "hubspot"), Credential("u2", "google"), Credential("u2", "hubspot") >>,
      << Credential("u2", "hubspot") >> }
CycleOptions ==
    { [userId |-> NULL, taskBatchSize |-> NULL],
      [userId |-> NULL, taskBatchSize |-> JNum(1)],
      [userId |-> JStr("u2"), taskBatchSize |-> NULL],
      [userId |-> JStr("u9"), taskBatchSize |-> NULL] }

CycleStore ==
    createAgentTask(
        [instructions |-> <<SeedInstruction>>,
         evaluations |-> <<NewEvaluation(NoDB, <<>>, "u1", SeedInstruction, SeedEvent)>>,
         tasks |-> <<SeedTask("pending")>>,
         contexts |-> <<ContextRow(1, "event", SeedEvent.payload)>>,
         steps |-> <<SeedStep("pending")>>],
        "u2", FollowUpInput, 0).db

CycleScripts == { <<MessageRound(ShortText)>>, <<FailingToolRound, MessageRound(ShortText)>> }

InitCycle ==
    /\ clock = 1
    /\ LET db == CycleStore
       IN  /\ instructions = db.instructions
           /\ evaluations = db.evaluations
           /\ tasks = db.tasks
           /\ contexts = db.contexts
           /\ steps = db.steps
    /\ \E credentials \in CredentialSets :
          accounts = [users |-> <<"u1", "u2">>, credentials |-> credentials]
    /\ cycle = CycleAtRest
    /\ RunnerIdle
    /\ ToolIdle /\ SchedIdle /\ MatcherIdle /\ StreamIdle /\ CrmIdle /\ ApiIdle /\ MergeIdle /\ RouteIdle

CycleFrame == UNCHANGED <<clock, storeVars, runnerVars, accounts, notCycle>>

(* line 29 *)
CycleStart(options) ==
    /\ cycle.pc = "idle"
    /\ cycle' = [CycleAtRest EXCEPT !.pc = "users", !.options = options]
    /\ CycleFrame

(* lines 30-39 *)
FindUsers ==
    /\ cycle.pc = "users"
    /\ LET Wanted(u) == cycle.options.userId = NULL \/ cycle.options.userId = JStr(u)
           userIds == SelectSeq(accounts.users, Wanted)
       IN  cycle' = IF Len(userIds) = 0
                    THEN [cycle EXCEPT !.pc = "returned",
                                       !.result = [usersProcessed |-> 0, outcomes |-> <<>>]]
                    ELSE [cycle EXCEPT !.pc = "credentials", !.userIds = userIds]
    /\ CycleFrame

(* lines 41-84 *)
FindCredentials ==
    /\ cycle.pc = "credentials"
    /\ LET InScope(c) == /\ \E i \in 1..Len(cycle.userIds) : cycle.userIds[i] = c.userId
                         /\ c.provider \in {"google", "hubspot"}
           credentials == SelectSeq(accounts.credentials, InScope)
           map == [i \in 1..Len(cycle.userIds) |->
                      IntegrationSnapshot(credentials, cycle.userIds[i])]
       IN  cycle' = BeginUser([cycle EXCEPT !.integrationMap = map], 1)
    /\ CycleFrame

CycleSync(sync, field, fallback, nextPc) ==
    /\ SetDB(SyncEvents(DB, cycle.outcome.userId, sync.events, clock))
    /\ cycle' = [cycle EXCEPT
                    !.outcome[field] = IF sync.threw THEN SyncFailure(sync.thrown, fallback)
                                       ELSE SyncCounts,
                    !.syncs = Append(@, [userId |-> cycle.outcome.userId, source |-> field,
                                         sync |-> sync]),
                    !.pc = nextPc]
    /\ UNCHANGED <<clock, runnerVars, accounts, notCycle>>

(* lines 85-93 *)
SyncGmail(sync) ==
    /\ cycle.pc = "gmail"
    /\ CycleSync(sync, "gmail", "Gmail sync failed", "calendar")

(* lines 95-105 *)
SyncCalendar(sync) ==
    /\ cycle.pc = "calendar"
    /\ CycleSync(sync, "calendar", "Calendar sync failed",
                 IF cycle.outcome.integrations.hubspot THEN "hubspot" ELSE "findDue")

(* lines 106-115 *)
SyncHubspot(sync) ==
    /\ cycle.pc = "hubspot"
    /\ CycleSync(sync, "hubspot", "HubSpot sync failed", "findDue")

(* poller.ts lines 74, 117-120; embeddings.ts lines 135-160 *)
FindDueTasks ==
    /\ cycle.pc = "findDue"
    /\ LET limit == IF cycle.options.taskBatchSize # NULL THEN cycle.options.taskBatchSize.n
                    ELSE 5
       IN  cycle' = [cycle EXCEPT
                        !.pc = "task",
                        !.dueTasks = DueTasks(DB, cycle.outcome.userId, clock, limit),
                        !.results = <<>>,
                        !.calledAt = clock,
                        !.selected = DueTasks(DB, cycle.outcome.userId, clock, limit)]
    /\ CycleFrame

(* embeddings.ts lines 162-163: the next task of the batch is handed to the runner *)
ProcessNextTask ==
    /\ cycle.pc = "task"
    /\ cycle.dueTasks # <<>>
    /\ ClaimCall(CycleRunner, Head(cycle.dueTasks))
    /\ cycle' = [cycle EXCEPT !.pc = "awaitTask"]
    /\ UNCHANGED <<clock, effects, accounts, notCycle>>

(* embeddings.ts line 164 *)
CollectTask ==
    /\ cycle.pc = "awaitTask"
    /\ runners[CycleRunner].pc = "returned"
    /\ cycle' = [cycle EXCEPT !.pc = "task",
                              !.results = Append(@, runners[CycleRunner].result),
                              !.dueTasks = Tail(@)]
    /\ SetRunner(CycleRunner, RunnerAtRest)
    /\ UNCHANGED <<clock, storeVars, claimed, effects, accounts, notCycle>>

(* embeddings.ts line 163, poller.ts line 117: nothing catches a rejected call *)
TaskRejects ==
    /\ cycle.pc = "awaitTask"
    /\ runners[CycleRunner].pc = "threw"
    /\ cycle' = [cycle EXCEPT !.pc = "threw", !.failedAt = "task"]
    /\ CycleFrame

(* embeddings.ts line 167, poller.ts lines 117-128 *)
FinishUser ==
    /\ cycle.pc = "task"
    /\ cycle.dueTasks = <<>>
    /\ LET outcomes == Append(cycle.outcomes, [cycle.outcome EXCEPT !.tasks = cycle.results])
           pushed == [cycle EXCEPT !.outcomes = outcomes]
       IN  cycle' = IF cycle.idx < Len(cycle.userIds)
                    THEN BeginUser(pushed, cycle.idx + 1)
                    ELSE [pushed EXCEPT
                             !.pc = "returned",
                             !.result = [usersProcessed |-> Len(outcomes),
                                         outcomes |-> outcomes]]
    /\ CycleFrame

(* a query of the cycle, or the claim of the next task, rejects: the cycle rejects *)
CycleThrow ==
    /\ \/ cycle.pc \in {"users", "credentials", "findDue"}
       \/ cycle.pc = "task" /\ cycle.dueTasks # <<>>
    /\ cycle' = [cycle EXCEPT !.pc = "threw",
                              !.failedAt = IF cycle.pc = "task" THEN "claim" ELSE cycle.pc]
    /\ CycleFrame

(* the steps of a cycle that has started: its queries and its hand-overs   *)
(* to the runner, its syncs, and the runner's steps                        *)
CycleOwnSteps ==
    \/ FindUsers
    \/ FindCredentials
    \/ FindDueTasks
    \/ ProcessNextTask
    \/ CollectTask
    \/ TaskRejects
    \/ FinishUser
    \/ CycleThrow

CycleSyncSteps ==
    \/ \E sync \in GmailSyncs : SyncGmail(sync)
    \/ \E sync \in CalendarSyncs : SyncCalendar(sync)
    \/ \E sync \in HubspotSyncs : SyncHubspot(sync)

CycleRunnerSteps ==
    \/ \E r \in Runners : Load(r)
    \/ \E r \in Runners : CreateStep(r)
    \/ \E r \in Runners : StartStep(r)
    \/ \E r \in Runners, retrieval \in RetrievalSections, script \in CycleScripts :
          Retrieve(r, retrieval, script)
    \/ \E r \in Runners : ModelRound(r)
    \/ \E r \in Runners : ExecuteTool(r)
    \/ \E r \in Runners : CompleteStep(r)
    \/ \E r \in Runners : CompleteTask(r)
    \/ \E r \in Runners, thrown \in StoreErrors \cup ServiceErrors : Throw(r, thrown)
    \/ \E r \in Runners : CatchFailTask(r)
    \/ \E r \in Runners : CatchFailSteps(r)
    \/ \E r \in Runners : CatchThrow(r)

CycleSteps ==
    \/ CycleOwnSteps
    \/ CycleSyncSteps
    \/ CycleRunnerSteps

NextCycle ==
    \/ \E options \in CycleOptions : CycleStart(options)
    \/ CycleSteps

(***************************************************************************)
(* SpecDue: a cycle over users without integrations, with tasks scheduled  *)
(* for now, for later and for never, while the clock moves on.             *)
(***************************************************************************)
MaxDueClock == 2

FollowUpAt(runAt) == [FollowUpInput EXCEPT !.scheduledFor = JNum(runAt)]

(* task 1 of u1 is due at once, task 2 of u2 from hour 1, task 3 of u1     *)
(* from hour 2, task 4 of u2 from hour 9                                   *)
DueStore ==
    createAgentTask(createAgentTask(CycleStore, "u1", FollowUpAt(2), 0).db,
                    "u2", FollowUpAt(9), 0).db

InitDue ==
    /\ clock = 1
    /\ LET db == DueStore
       IN  /\ instructions = db.instructions
           /\ evaluations = db.evaluations
           /\ tasks = db.tasks
           /\ contexts = db.contexts
           /\ steps = db.steps
    /\ accounts = [users |-> <<"u1", "u2">>, credentials |-> <<>>]
    /\ cycle = CycleAtRest
    /\ RunnerIdle
    /\ ToolIdle /\ SchedIdle /\ MatcherIdle /\ StreamIdle /\ CrmIdle /\ ApiIdle /\ MergeIdle /\ RouteIdle

(* time passes *)
DueTick ==
    /\ clock < MaxDueClock
    /\ clock' = clock + 1
    /\ UNCHANGED <<storeVars, runnerVars, cycleVars, notCycle>>

NextDue ==
    \/ \E options \in CycleOptions : CycleStart(options)
    \/ CycleOwnSteps
    \/ CycleRunnerSteps
    \/ DueTick

(***************************************************************************)
(* One model round, runModelIteration (agent/model.ts lines 24-136), over  *)
(* the chunks the completion stream yields.                                *)
(***************************************************************************)
MaxChunks == 3

(* a fragment of a streamed tool call, and a chunk of the stream; an empty *)
(* tool_calls stands for an absent or empty list                           *)
Fragment(index, id, name, arguments) ==
    [index |-> index, id |-> id, name |-> name, arguments |-> arguments]
Chunk(choice, finishReason, delta, content, toolCalls) ==
    [choice |-> choice, finish_reason |-> finishReason, delta |-> delta, content |-> content,
     tool_calls |-> toolCalls]

TextChunk(text) == Chunk(TRUE, NULL, TRUE, JStr(text), <<>>)
Chunks ==
    { Chunk(FALSE, NULL, FALSE, NULL, <<>>),
      TextChunk("Hel"),
      TextChunk("lo"),
      TextChunk(""),
      Chunk(TRUE, NULL, TRUE, NULL,
            <<Fragment(JNum(0), JStr("call_a"), JStr("sendEmail"), JStr("{\"to\":"))>>),
      Chunk(TRUE, NULL, TRUE, NULL, <<Fragment(NULL, NULL, NULL, JStr("\"a@b.c\"}"))>>),
      Chunk(TRUE, NULL, TRUE, JStr("!"),
            <<Fragment(JNum(1), NULL, JStr("listInstructions"), NULL)>>),
      Chunk(TRUE, NULL, TRUE, NULL, <<Fragment(JNum(1), JStr("call_b"), NULL, JStr(""))>>),
      Chunk(TRUE, NULL, TRUE, NULL,
            <<Fragment(JNum(1), JStr("call_c"), JStr("searchKnowledge"), JStr("{\"query\":")),
              Fragment(JNum(0), NULL, NULL, JStr(" ")),
              Fragment(JNum(1), NULL, NULL, JStr("\"x\"}"))>>),
      Chunk(TRUE, JStr("stop"), FALSE, NULL, <<>>),
      Chunk(TRUE, JStr("tool_calls"), TRUE, NULL, <<>>) }

(* a JavaScript value that is truthy as a string: neither undefined nor "" *)
Truthy(v) == v # NULL /\ v.s # ""

Hole == [hole |-> TRUE]
NewCall == [id |-> NULL, name |-> "", arguments |-> ""]

(* lines 63-84: one fragment joins the accumulator *)
(* an accumulation that keeps the first id and name it was given *)
AccumulateFirstGiven(acc, call) ==
    LET index == IF call.index # NULL THEN call.index.n ELSE 0
        existing == IF index < Len(acc) /\ acc[index + 1] # Hole THEN acc[index + 1] ELSE NewCall
        updated == [id |-> IF existing.id = NULL /\ Truthy(call.id) THEN call.id ELSE existing.id,
                    name |-> IF existing.name = "" /\ Truthy(call.name) THEN call.name.s
                             ELSE existing.name,
                    arguments |-> IF Truthy(call.arguments)
                                  THEN existing.arguments \o call.arguments.s
                                  ELSE existing.arguments]
    IN  [i \in 1..(IF index + 1 > Len(acc) THEN index + 1 ELSE Len(acc)) |->
            IF i = index + 1 THEN updated
            ELSE IF i <= Len(acc) THEN acc[i] ELSE Hole]

Accumulate(acc, call) ==
    LET index == IF call.index # NULL THEN call.index.n ELSE 0
        existing == IF index < Len(acc) /\ acc[index + 1] # Hole THEN acc[index + 1] ELSE NewCall
        updated == [id |-> IF Truthy(call.id) THEN call.id ELSE existing.id,
                    name |-> IF Truthy(call.name) THEN call.name.s ELSE existing.name,
                    arguments |-> IF Truthy(call.arguments)
                                  THEN existing.arguments \o call.arguments.s
                                  ELSE existing.arguments]
    IN  [i \in 1..(IF index + 1 > Len(acc) THEN index + 1 ELSE Len(acc)) |->
            IF i = index + 1 THEN updated
            ELSE IF i <= Len(acc) THEN acc[i] ELSE Hole]

RECURSIVE AccumulateAll(_, _)
AccumulateAll(acc, calls) ==
    IF Len(calls) = 0 THEN acc
    ELSE AccumulateAll(Accumulate(acc, Head(calls)), Tail(calls))

(* a forwarding that ignores the tool calls seen *)
ShouldForwardAlways(toolCallDetected, onToken) == onToken

(* line 89 *)
ShouldForward(toolCallDetected, onToken) == ~toolCallDetected /\ onToken

(* a decision that ignores the finish reason *)
IsToolCallsResultDetectedOnly(toolCallDetected, finishReason) == toolCallDetected

(* line 95 *)
IsToolCallsResult(toolCallDetected, finishReason) ==
    toolCallDetected \/ finishReason = JStr("tool_calls")

(* lines 96-120: the calls with a name, in index order *)
RECURSIVE FinishedCalls(_, _)
FinishedCalls(acc, index) ==
    IF index >= Len(acc) THEN <<>>
    ELSE LET call == acc[index + 1]
             rest == FinishedCalls(acc, index + 1)
         IN  IF call = Hole \/ call.name = "" THEN rest
             ELSE << [id |-> IF call.id # NULL THEN call.id.s
                             ELSE "tool_call_" \o ToString(index),
                      type |-> "function",
                      function |-> [name |-> call.name,
                                    arguments |-> IF call.arguments # "" THEN call.arguments
                                                  ELSE "{}"]] >> \o rest

(* lines 48-93: the loop body for one chunk, before any forwarding *)
AbsorbChunk(run, chunk) ==
    IF ~chunk.choice THEN run
    ELSE LET finished == IF Truthy(chunk.finish_reason)
                         THEN [run EXCEPT !.finishReason = chunk.finish_reason]
                         ELSE run
         IN  IF ~chunk.delta THEN finished
             ELSE LET called == IF Len(chunk.tool_calls) > 0
                                THEN [finished EXCEPT
                                         !.toolCallDetected = TRUE,
                                         !.toolCallAccumulator = AccumulateAll(@, chunk.tool_calls)]
                                ELSE finished
                  IN  IF Truthy(chunk.content)
                      THEN [called EXCEPT !.content = @ \o chunk.content.s]
                      ELSE called

(* lines 86-92: whether the chunk's text goes to onToken *)
Forwards(run, chunk) ==
    /\ chunk.choice /\ chunk.delta /\ Truthy(chunk.content)
    /\ ShouldForward(AbsorbChunk(run, chunk).toolCallDetected, run.onToken)

InitStream ==
    /\ StreamIdle
    /\ clock = 0
    /\ instructions = <<>> /\ evaluations = <<>> /\ tasks = <<>> /\ contexts = <<>>
    /\ steps = <<>>
    /\ ToolIdle /\ SchedIdle /\ MatcherIdle /\ RunnerIdle /\ CycleIdle /\ CrmIdle /\ ApiIdle /\ MergeIdle /\ RouteIdle

(* lines 24-43 *)
ModelStart(onToken) ==
    /\ modelRun.pc = "idle"
    /\ modelRun' = [ModelRunAtRest EXCEPT !.pc = "stream", !.onToken = onToken]
    /\ chunksSeen' = <<>>
    /\ UNCHANGED notStream

(* lines 44-93: the stream yields a chunk; onToken, when called, returns or throws *)
StreamChunk(chunk, tokenReturns) ==
    /\ modelRun.pc = "stream"
    /\ Len(chunksSeen) < MaxChunks
    /\ tokenReturns \/ Forwards(modelRun, chunk)
    /\ chunksSeen' = Append(chunksSeen, chunk)
    /\ \E absorbed \in {AbsorbChunk(modelRun, chunk)} :
          modelRun' = IF Forwards(modelRun, chunk)
                      THEN [absorbed EXCEPT
                               !.forwarded = Append(@, chunk.content.s),
                               !.pc = IF tokenReturns THEN "stream" ELSE "threw"]
                      ELSE absorbed
    /\ UNCHANGED notStream

(* lines 95-130: the stream is exhausted *)
StreamEnds ==
    /\ modelRun.pc = "stream"
    /\ modelRun' = [modelRun EXCEPT
          !.pc = "returned",
          !.result = IF IsToolCallsResult(modelRun.toolCallDetected, modelRun.finishReason)
                     THEN [type |-> "tool_calls", content |-> modelRun.content,
                           toolCalls |-> FinishedCalls(modelRun.toolCallAccumulator, 0)]
                     ELSE [type |-> "message", content |-> modelRun.content]]
    /\ UNCHANGED <<chunksSeen, notStream>>

(* line 44: the stream rejects *)
StreamThrows ==
    /\ modelRun.pc = "stream"
    /\ modelRun' = [modelRun EXCEPT !.pc = "threw"]
    /\ UNCHANGED <<chunksSeen, notStream>>

NextStream ==
    \/ \E onToken \in BOOLEAN : ModelStart(onToken)
    \/ \E chunk \in Chunks, tokenReturns \in BOOLEAN : StreamChunk(chunk, tokenReturns)
    \/ StreamEnds
    \/ StreamThrows

(***************************************************************************)
(* The CRM upsert tool: createOrUpdateHubspotContact (unnamed/part_003),   *)
(* ingestHubspotContact and persistHubspotContact (retrieval.ts).          *)
(***************************************************************************)
MaxCrmCalls == 2

CrmUser == "u1"
PropsA == [email |-> "ann@example.com", firstname |-> "Ann"]
PropsB == [email |-> "ann@example.com", firstname |-> "Anna", company |-> "Acme"]
ContactInputs ==
    { [contactId |-> JStr("c1"), properties |-> PropsA],
      [contactId |-> JStr("c1"), properties |-> PropsB],
      [contactId |-> JStr("c9"), properties |-> PropsA],
      [contactId |-> NULL, properties |-> PropsA] }

(* HubSpot's side: PATCH and POST of /crm/v3/objects/contacts *)
RemoteHas(remote, id) == \E i \in 1..Len(remote) : remote[i].id = id
RemoteGet(remote, id) == remote[CHOOSE i \in 1..Len(remote) : remote[i].id = id]
MergeProperties(old, new) ==
    [f \in DOMAIN old \cup DOMAIN new |-> IF f \in DOMAIN new THEN new[f] ELSE old[f]]
RemotePatch(remote, id, properties) ==
    [i \in 1..Len(remote) |->
        IF remote[i].id = id
        THEN [remote[i] EXCEPT !.properties = MergeProperties(@, properties)]
        ELSE remote[i]]
RemotePost(remote, id, properties) == Append(remote, [id |-> id, properties |-> properties])

(* retrieval.ts lines 1031-1055 *)
Property(properties, field) ==
    IF field \in DOMAIN properties THEN JStr(properties[field]) ELSE NULL
normaliseContact(result, portalId) ==
    [id |-> result.id, portalId |-> portalId,
     email |-> Property(result.properties, "email"),
     firstName |-> Property(result.properties, "firstname"),
     company |-> Property(result.properties, "company"),
     properties |-> result.properties]

SameContact(row, userId, contact) ==
    row.userId = userId /\ row.portalId = contact.portalId /\ row.contactId = contact.id

(* an upsert that always takes its create branch *)
UpsertContactAlwaysCreates(contacts, userId, contact) ==
    Append(contacts,
           [id |-> 1 + MaxOf(Ids(contacts)), userId |-> userId, portalId |-> contact.portalId,
            contactId |-> contact.id, email |-> contact.email, firstName |-> contact.firstName,
            company |-> contact.company, properties |-> contact.properties])

(* retrieval.ts lines 1145-1172: the upsert on (userId, portalId, contactId); *)
(* a null field leaves the stored one as it is                                *)
UpsertContact(contacts, userId, contact) ==
    IF \E i \in 1..Len(contacts) : SameContact(contacts[i], userId, contact)
    THEN [i \in 1..Len(contacts) |->
            IF SameContact(contacts[i], userId, contact)
            THEN [contacts[i] EXCEPT
                     !.email = IF contact.email # NULL THEN contact.email ELSE @,
                     !.firstName = IF contact.firstName # NULL THEN contact.firstName ELSE @,
                     !.company = IF contact.company # NULL THEN contact.company ELSE @,
                     !.properties = contact.properties]
            ELSE contacts[i]]
    ELSE Append(contacts,
                [id |-> 1 + MaxOf(Ids(contacts)), userId |-> userId,
                 portalId |-> contact.portalId, contactId |-> contact.id,
                 email |-> contact.email, firstName |-> contact.firstName,
                 company |-> contact.company, properties |-> contact.properties])

ContactRowId(contacts, userId, contact) ==
    contacts[CHOOSE i \in 1..Len(contacts) : SameContact(contacts[i], userId, contact)].id

(* an event of another type *)
ContactCreatedEvent(contact) ==
    [type |-> "hubspot.contact_created",
     payload |-> JObj(<< Entry("contactId", JStr(contact.id)), Entry("email", contact.email),
                         Entry("firstName", contact.firstName), Entry("lastName", NULL) >>),
     occurredAt |-> NULL]

(* retrieval.ts lines 953-961 *)
ContactUpdatedEvent(contact) ==
    [type |-> "hubspot.contact_updated",
     payload |-> JObj(<< Entry("contactId", JStr(contact.id)), Entry("email", contact.email),
                         Entry("firstName", contact.firstName), Entry("lastName", NULL) >>),
     occurredAt |-> NULL]

ContactInstruction ==
    InstructionRow(1, CrmUser, "Greet new contacts", "Send a welcome email",
                   JArr(<<"hubspot.contact_updated">>), "active")

(* the user's instructions: two that the contact event triggers, one for  *)
(* mail only, one that is paused, and one of another user                  *)
ContactInstructions ==
    << ContactInstruction,
       InstructionRow(2, CrmUser, "File mail", "File every message",
                      JArr(<<"gmail.message_created">>), "active"),
       InstructionRow(3, CrmUser, "Log contacts", "Add a note for every contact change",
                      JArr(<<"gmail.message_created", "hubspot.contact_updated">>), "active"),
       InstructionRow(4, CrmUser, "Call new contacts", "Schedule a call",
                      JArr(<<"hubspot.contact_updated">>), "paused"),
       InstructionRow(5, "u2", "Greet new contacts", "Send a welcome email",
                      JArr(<<"hubspot.contact_updated">>), "active") >>

InitCrm ==
    /\ clock = 1
    /\ instructions \in {<<ContactInstruction>>, ContactInstructions}
    /\ evaluations = <<>> /\ tasks = <<>> /\ contexts = <<>> /\ steps = <<>>
    /\ \E portalId \in {NULL, JStr("p1")} :
          crm = [NoCrm EXCEPT
                    !.portalId = portalId,
                    !.remote = << [id |-> "c1", properties |-> [email |-> "ann@example.com"]] >>]
    /\ crmCall = CrmCallAtRest
    /\ crmCalls = <<>>
    /\ ToolIdle /\ SchedIdle /\ MatcherIdle /\ RunnerIdle /\ CycleIdle /\ StreamIdle /\ ApiIdle /\ MergeIdle /\ RouteIdle

CrmFrame == UNCHANGED <<clock, storeVars, notCrm>>

(* the call settles: it returns the payload, or rejects *)
CrmSettle(call, status) ==
    /\ crmCall' = [call EXCEPT !.pc = status]
    /\ crmCalls' = Append(crmCalls, [input |-> call.input, status |-> status,
                                     contactId |-> call.payloadId,
                                     persisted |-> call.persisted, rowId |-> call.rowId,
                                     events |-> call.events, evaluated |-> call.evaluated])

(* poller.ts line 734, part_003 line 9 *)
CrmStart(input) ==
    /\ crmCall.pc \in {"idle", "returned", "threw"}
    /\ Len(crmCalls) < MaxCrmCalls
    /\ crmCall' = [CrmCallAtRest EXCEPT !.pc = "remote", !.input = input]
    /\ UNCHANGED <<crm, crmCalls>>
    /\ CrmFrame

(* part_003 lines 10-41: the token, then PATCH of the contact or POST of a new one *)
RemoteUpsert(reachable) ==
    /\ crmCall.pc = "remote"
    /\ IF crmCall.input.contactId # NULL /\ crmCall.input.contactId.s # ""
       THEN IF reachable /\ RemoteHas(crm.remote, crmCall.input.contactId.s)
            THEN /\ crm' = [crm EXCEPT !.remote = RemotePatch(@, crmCall.input.contactId.s,
                                                              crmCall.input.properties)]
                 /\ crmCall' = [crmCall EXCEPT !.pc = "ingest",
                                               !.payloadId = crmCall.input.contactId.s]
                 /\ UNCHANGED crmCalls
            ELSE /\ CrmSettle(crmCall, "threw")
                 /\ UNCHANGED crm
       ELSE IF reachable
            THEN /\ crm' = [crm EXCEPT
                               !.created = @ + 1,
                               !.remote = RemotePost(@, "n" \o ToString(crm.created + 1),
                                                     crmCall.input.properties)]
                 /\ crmCall' = [crmCall EXCEPT !.pc = "ingest",
                                               !.payloadId = "n" \o ToString(crm.created + 1)]
                 /\ UNCHANGED crmCalls
            ELSE /\ CrmSettle(crmCall, "threw")
                 /\ UNCHANGED crm
    /\ CrmFrame

(* part_003 lines 45-49, retrieval.ts lines 921-951: the contact is read   *)
(* back; whatever ingestHubspotContact throws is logged and dropped        *)
IngestFetch(reachable) ==
    /\ crmCall.pc = "ingest"
    /\ IF crm.portalId = NULL \/ ~reachable
       THEN CrmSettle(crmCall, "returned")
       ELSE /\ crmCall' = [crmCall EXCEPT
                              !.pc = "persist",
                              !.normalised = normaliseContact(
                                                RemoteGet(crm.remote, crmCall.payloadId),
                                                crm.portalId.s)]
            /\ UNCHANGED crmCalls
    /\ UNCHANGED crm
    /\ CrmFrame

(* retrieval.ts lines 952, 1097-1247: the transaction commits or rolls back *)
PersistContact(commits) ==
    /\ crmCall.pc = "persist"
    /\ IF commits
       THEN \E contacts \in {UpsertContact(crm.contacts, CrmUser, crmCall.normalised)} :
               /\ crm' = [crm EXCEPT !.contacts = contacts]
               /\ crmCall' = [crmCall EXCEPT
                                 !.pc = "evaluate", !.persisted = TRUE,
                                 !.rowId = ContactRowId(contacts, CrmUser, crmCall.normalised)]
               /\ UNCHANGED crmCalls
       ELSE /\ CrmSettle(crmCall, "returned")
            /\ UNCHANGED crm
    /\ CrmFrame

(* retrieval.ts lines 953-962, part_003 line 51: the event goes to the matcher *)
EvaluateContact(succeeds) ==
    /\ crmCall.pc = "evaluate"
    /\ \E event \in {ContactUpdatedEvent(crmCall.normalised)} :
          /\ IF succeeds
             THEN SetDB(EvaluateCommitted(DB, CrmUser, MatchInstructions(DB, CrmUser, event),
                                          event, clock))
             ELSE UNCHANGED storeVars
          /\ CrmSettle([crmCall EXCEPT !.events = Append(@, [userId |-> CrmUser, event |-> event]),
                                       !.evaluated = succeeds],
                       "returned")
    /\ UNCHANGED <<clock, crm, notCrm>>

NextCrm ==
    \/ \E input \in ContactInputs : CrmStart(input)
    \/ \E reachable \in BOOLEAN : RemoteUpsert(reachable)
    \/ \E reachable \in BOOLEAN : IngestFetch(reachable)
    \/ \E commits \in BOOLEAN : PersistContact(commits)
    \/ \E succeeds \in BOOLEAN : EvaluateContact(succeeds)

(***************************************************************************)
(* Authoring instructions: POST and PATCH of the instruction endpoints     *)
(* (app/api/instructions/route.ts), the storeInstruction tool              *)
(* (poller.ts lines 819-846) and createInstruction (instructions.ts 18-28).*)
(***************************************************************************)
MaxInstructions == 2

(* route.ts lines 8-13 *)
InstructionSchema ==
    << FString("title", FALSE, 1, "String must contain at least 1 character(s)"),
       FString("content", FALSE, 1, "String must contain at least 1 character(s)"),
       FStringArray("triggers", TRUE, "string", 0, ""),
       FRecord("metadata", TRUE) >>

(* route.ts lines 64-70 *)
UpdateSchema ==
    << FEnum("status", {"active", "paused", "archived"}, "'active' | 'paused' | 'archived'"),
       FStringArray("triggers", TRUE, "string", 0, ""),
       FString("title", TRUE, 0, ""),
       FString("content", TRUE, 0, ""),
       FRecord("metadata", TRUE) >>

(* the status column default of a new instruction *)
DefaultInstructionStatus == "active"

(* a validated list of trigger strings as the column holds it *)
StoredTriggers(v) == JArr([i \in 1..Len(v.items) |-> v.items[i].s])

(* instructions.ts lines 18-28: triggers when given, the database null otherwise *)
createInstruction(rows, userId, input) ==
    Append(rows,
           InstructionRow(1 + MaxOf(Ids(rows)), userId, GetKey(input, "title").s,
                          GetKey(input, "content").s,
                          IF HasKey(input, "triggers")
                          THEN StoredTriggers(GetKey(input, "triggers")) ELSE NULL,
                          DefaultInstructionStatus))

(* route.ts lines 98-107: the fields given replace the stored ones *)
UpdateInstruction(rows, id, updates) ==
    [i \in 1..Len(rows) |->
        IF rows[i].id # id THEN rows[i]
        ELSE [rows[i] EXCEPT
                 !.status = IF HasKey(updates, "status") THEN GetKey(updates, "status").s ELSE @,
                 !.triggers = IF HasKey(updates, "triggers")
                              THEN StoredTriggers(GetKey(updates, "triggers")) ELSE @,
                 !.title = IF HasKey(updates, "title") THEN GetKey(updates, "title").s ELSE @,
                 !.content = IF HasKey(updates, "content")
                             THEN GetKey(updates, "content").s ELSE @]]

Triggers(list) == JArr([i \in 1..Len(list) |-> JStr(list[i])])
Authored(title, rest) ==
    JObj(<<Entry("title", JStr(title)), Entry("content", JStr("Answer every new message"))>>
         \o rest)
PostBodies ==
    { Authored("Reply", <<Entry("triggers", Triggers(<<"gmail.message_created">>))>>),
      Authored("Reply", <<>>),
      Authored("Reply", <<Entry("triggers", Triggers(<<>>))>>),
      Authored("", <<Entry("triggers", Triggers(<<"gmail.message_created">>))>>),
      JNull }
ToolInputs ==
    { Authored("Reply", <<Entry("triggers", Triggers(<<"gmail.message_created">>))>>),
      Authored("Reply", <<Entry("triggers", Triggers(<<>>))>>),
      Authored("Reply", <<Entry("triggers", Triggers(<<"">>))>>),
      Authored("Reply", <<>>) }
PatchBodies ==
    { JObj(<<Entry("status", JStr("paused"))>>),
      JObj(<<Entry("status", JStr("active"))>>),
      JObj(<<Entry("triggers", Triggers(<<>>))>>),
      JObj(<<Entry("triggers", Triggers(<<"calendar.event_created">>))>>),
      JObj(<<Entry("status", JStr("deleted"))>>) }
ApiUsers == {"u1", "u2"}

Response(status, instructionId) == [status |-> status, instructionId |-> instructionId]

InitApi ==
    /\ clock = 0
    /\ instructions = <<>>
    /\ evaluations = <<>> /\ tasks = <<>> /\ contexts = <<>> /\ steps = <<>>
    /\ ApiIdle /\ MergeIdle /\ RouteIdle
    /\ ToolIdle /\ SchedIdle /\ MatcherIdle /\ RunnerIdle /\ CycleIdle /\ StreamIdle /\ CrmIdle

ApiFrame == UNCHANGED <<evaluations, tasks, contexts, steps, notApi>>

(* route.ts lines 34-55 *)
PostInstruction(userId, body) ==
    /\ Len(instructions) < MaxInstructions
    /\ IF body.t # "object" \/ ShapeIssues(InstructionSchema, body) # <<>>
       THEN /\ apiResponse' = Response(400, 0)
            /\ UNCHANGED instructions
       ELSE /\ instructions' = createInstruction(instructions, userId,
                                                 JObj(StripToShape(InstructionSchema, body)))
            /\ apiResponse' = Response(201, 1 + MaxOf(Ids(instructions)))
    /\ ApiFrame

(* poller.ts lines 249-254, 837-845, through the executor's validation *)
StoreInstructionTool(userId, input) ==
    /\ Len(instructions) < MaxInstructions
    /\ IF ShapeIssues(storeInstructionSchema, input) # <<>>
       THEN /\ apiResponse' = Response(400, 0)
            /\ UNCHANGED instructions
       ELSE /\ instructions' = createInstruction(instructions, userId,
                                                 JObj(StripToShape(storeInstructionSchema, input)))
            /\ apiResponse' = Response(200, 1 + MaxOf(Ids(instructions)))
    /\ ApiFrame

(* route.ts lines 72-113 *)
PatchInstruction(userId, instructionId, body) ==
    /\ IF body.t # "object" \/ ShapeIssues(UpdateSchema, body) # <<>>
       THEN /\ apiResponse' = Response(400, 0)
            /\ UNCHANGED instructions
       ELSE IF ~\E i \in 1..Len(instructions) :
                    instructions[i].id = instructionId /\ instructions[i].userId = userId
       THEN /\ apiResponse' = Response(404, 0)
            /\ UNCHANGED instructions
       ELSE /\ instructions' = UpdateInstruction(instructions, instructionId,
                                                 JObj(StripToShape(UpdateSchema, body)))
            /\ apiResponse' = Response(200, instructionId)
    /\ ApiFrame

NextApi ==
    \/ \E userId \in ApiUsers, body \in PostBodies : PostInstruction(userId, body)
    \/ \E userId \in ApiUsers, input \in ToolInputs : StoreInstructionTool(userId, input)
    \/ \E userId \in ApiUsers, instructionId \in 1..MaxInstructions, body \in PatchBodies :
          PatchInstruction(userId, instructionId, body)

(***************************************************************************)
(* SpecMerge: one call of mergeTaskMetadata on a stored metadata value and *)
(* the metadata a run hands back.                                          *)
(***************************************************************************)
StoredMetadata ==
    { NULL, JStr("note"), JNum(7), JArr(<<JNum(1), JStr("x")>>), JObj(<<>>),
      JObj(<<Entry("source", JStr("gmail"))>>),
      JObj(<<Entry("source", JStr("gmail")), Entry("attempts", JNum(1))>>),
      JObj(<<Entry("attempts", JNum(2)),
             Entry("followUpScheduling", JObj(<<Entry("timeZone", JStr("UTC"))>>))>>) }

MetadataUpdates ==
    { NULL, Absent, JStr("done"), JNum(0), JArr(<<JStr("y")>>), JObj(<<>>),
      JObj(<<Entry("attempts", JNum(3))>>),
      JObj(<<Entry("source", NULL)>>),
      JObj(<<Entry("followUpScheduling", JObj(<<Entry("adjusted", JBool(TRUE))>>))>>),
      JObj(<<Entry("source", Absent), Entry("thread", JStr("t1"))>>),
      JObj(<<Entry("thread", JStr("t1")), Entry("source", JStr("calendar"))>>) }

InitMerge ==
    /\ mergeCall \in [pc : {"called"}, existing : StoredMetadata, updates : MetadataUpdates,
                      result : {NotReturned}]
    /\ clock = 0
    /\ instructions = <<>> /\ evaluations = <<>> /\ tasks = <<>> /\ contexts = <<>>
    /\ steps = <<>>
    /\ ToolIdle /\ SchedIdle /\ MatcherIdle /\ RunnerIdle /\ CycleIdle /\ StreamIdle /\ CrmIdle
    /\ ApiIdle /\ RouteIdle

(* embeddings.ts line 249, lines 465-485 *)
MergeReturns ==
    /\ mergeCall.pc = "called"
    /\ mergeCall' = [mergeCall EXCEPT !.pc = "returned",
                                      !.result = mergeTaskMetadata(mergeCall.existing,
                                                                   mergeCall.updates)]
    /\ UNCHANGED notMerge

NextMerge == MergeReturns

(***************************************************************************)
(* SpecRoute: one request to POST /api/automation/run                      *)
(* (src/app/api/automation/run/route.ts lines 5-40) and the cycle it runs. *)
(***************************************************************************)
Digits == {"0", "1", "2", "3", "4", "5", "6", "7", "8", "9"}
DigitValue(ch) == CHOOSE d \in 0..9 : ToString(d) = ch

(* the longest prefix of digits *)
RECURSIVE DigitPrefix(_)
DigitPrefix(text) ==
    IF Len(text) > 0 /\ SubSeq(text, 1, 1) \in Digits
    THEN SubSeq(text, 1, 1) \o DigitPrefix(SubSeq(text, 2, Len(text)))
    ELSE ""

RECURSIVE DecimalValue(_)
DecimalValue(digits) ==
    IF digits = "" THEN 0
    ELSE 10 * DecimalValue(SubSeq(digits, 1, Len(digits) - 1))
            + DigitValue(SubSeq(digits, Len(digits), Len(digits)))

(* Number.parseInt(text, 10): white space, a sign, then digits up to the   *)
(* first other character; NaN, here NULL, when there is no digit           *)
ParseInt(text) ==
    LET trimmed == TrimLeft(text)
        signed == Len(trimmed) > 0 /\ SubSeq(trimmed, 1, 1) \in {"+", "-"}
        negative == signed /\ SubSeq(trimmed, 1, 1) = "-"
        digits == DigitPrefix(IF signed THEN SubSeq(trimmed, 2, Len(trimmed)) ELSE trimmed)
    IN  IF digits = "" THEN NULL
        ELSE JNum(IF negative THEN 0 - DecimalValue(digits) ELSE DecimalValue(digits))

(* a parse that takes the text only when all of it is digits *)
ParseWholeNumber(text) ==
    IF text # "" /\ DigitPrefix(text) = text THEN JNum(DecimalValue(text)) ELSE NULL

JsonResponse(status, body) == [status |-> status, body |-> body]
ErrorBody(message) == [error |-> message]

Secrets == {NULL, JStr(""), JStr("s3cret")}
AuthorizationHeaders ==
    {NULL, JStr("Bearer s3cret"), JStr("bearer s3cret"), JStr("Bearer s3cret "), JStr("s3cret"),
     JStr("Bearer "), JStr("Bearer other")}
TargetUsers == {NULL, JStr("u2")}
TaskLimits ==
    {NULL, JStr(""), JStr("2"), JStr("0"), JStr("-1"), JStr("abc"), JStr("2.5"), JStr("2abc")}

InitRoute ==
    /\ clock = 1
    /\ LET db == CycleStore
       IN  /\ instructions = db.instructions
           /\ evaluations = db.evaluations
           /\ tasks = db.tasks
           /\ contexts = db.contexts
           /\ steps = db.steps
    /\ accounts = [users |-> <<"u1", "u2">>,
                   credentials |-> << Credential("u1", "hubspot"), Credential("u2", "google"),
                                      Credential("u2", "hubspot") >>]
    /\ cycle = CycleAtRest
    /\ request \in [pc : {"received"}, secret : Secrets, authorization : AuthorizationHeaders,
                    userId : TargetUsers, taskLimit : TaskLimits, response : {NotReturned}]
    /\ RunnerIdle
    /\ ToolIdle /\ SchedIdle /\ MatcherIdle /\ StreamIdle /\ CrmIdle /\ ApiIdle /\ MergeIdle

Respond(response) == request' = [request EXCEPT !.pc = "responded", !.response = response]

(* lines 5-33: the checks, and the call of runAutomationCycle *)
RouteAdmit ==
    /\ request.pc = "received"
    /\ LET parsed == IF Truthy(request.taskLimit) THEN ParseInt(request.taskLimit.s) ELSE NULL
       IN  IF ~Truthy(request.secret)
           THEN /\ Respond(JsonResponse(500, ErrorBody("AUTOMATION_CRON_SECRET is not configured")))
                /\ UNCHANGED cycle
           ELSE IF ~Truthy(request.authorization)
                   \/ request.authorization.s # "Bearer " \o request.secret.s
           THEN /\ Respond(JsonResponse(401, ErrorBody("Unauthorized")))
                /\ UNCHANGED cycle
           ELSE IF Truthy(request.taskLimit) /\ (parsed = NULL \/ parsed.n <= 0)
           THEN /\ Respond(JsonResponse(400, ErrorBody("taskLimit must be a positive integer")))
                /\ UNCHANGED cycle
           ELSE /\ request' = [request EXCEPT !.pc = "cycle"]
                /\ cycle' = [CycleAtRest EXCEPT
                                !.pc = "users",
                                !.options = [userId |-> request.userId,
                                             taskBatchSize |-> parsed]]
    /\ UNCHANGED <<clock, storeVars, runnerVars, accounts, notRoute>>

(* lines 34-39: the cycle's result, or the message of what it threw *)
RouteRespond ==
    /\ request.pc = "cycle"
    /\ cycle.pc \in {"returned", "threw"}
    /\ IF cycle.pc = "returned"
       THEN Respond(JsonResponse(200, cycle.result))
       ELSE Respond(JsonResponse(500, ErrorBody("Automation run failed")))
    /\ UNCHANGED <<clock, storeVars, runnerVars, cycleVars, notRoute>>

NextRoute ==
    \/ RouteAdmit
    \/ CycleSteps
    \/ RouteRespond

vars == <<toolVars, clock, storeVars, schedVars, matcherVars, runnerVars, cycleVars, streamVars,
          crmVars, apiResponse, mergeCall, request>>

SpecTool == InitTool /\ [][NextTool]_vars

SpecSched == InitSched /\ [][NextSched]_vars

SpecMatcher == InitMatcher /\ [][NextMatcher]_vars

Spec == Init /\ [][Next]_vars

(* the runners, with crashes of their process *)
SpecCrash == Init /\ [][NextCrash]_vars

(* SpecSteps: the runner over stores in which the claimable task also has  *)
(* a step that is over, so that a further step is appended                 *)
StepSeedStores ==
    { <<"waiting", "completed", ManualInput, "cancelled">>,
      <<"pending", "failed", FollowUpInput, "failed">>,
      <<"pending", "pending", ManualInput, "cancelled">>,
      <<"waiting", "running", ManualInput, "cancelled">>,
      <<"cancelled", "pending", FollowUpInput, "pending">>,
      <<"failed", "failed", ManualInput, "pending">> }

InitSteps ==
    /\ clock = 1
    /\ \E seed \in StepSeedStores :
          LET db == InitialStore(seed)
          IN  /\ instructions = db.instructions
              /\ evaluations = db.evaluations
              /\ tasks = db.tasks
              /\ contexts = db.contexts
              /\ steps = db.steps
    /\ RunnerIdle
    /\ ToolIdle /\ SchedIdle /\ MatcherIdle /\ CycleIdle /\ StreamIdle /\ CrmIdle /\ ApiIdle /\ MergeIdle /\ RouteIdle

SpecSteps == InitSteps /\ [][Next]_vars

SpecCycle == InitCycle /\ [][NextCycle]_vars

SpecDue == InitDue /\ [][NextDue]_vars

SpecStream == InitStream /\ [][NextStream]_vars

SpecCrm == InitCrm /\ [][NextCrm]_vars

SpecApi == InitApi /\ [][NextApi]_vars

SpecMerge == InitMerge /\ [][NextMerge]_vars

SpecRoute == InitRoute /\ [][NextRoute]_vars

(* the steps of a run outside a tool call, once their await settles: each *)
(* store call and each model call returns                                 *)
RunnerProgress(r) ==
    \/ Load(r)
    \/ CreateStep(r)
    \/ StartStep(r)
    \/ \E retrieval \in RetrievalSections, script \in Scripts : Retrieve(r, retrieval, script)
    \/ ModelRound(r)
    \/ CompleteStep(r)
    \/ CompleteTask(r)
    \/ CatchFailTask(r)
    \/ CatchFailSteps(r)



(***************************************************************************)
(* Claims about the tool executor, checked under SpecTool.                 *)
(***************************************************************************)
ToolRegistered == LookupTool(toolCall.name) # NULL
ToolArgumentsBlank == IsBlank(toolCall.rawArguments)
ToolHandlerRan == \E i \in 1..Len(toolTrace) : toolTrace[i] = "handler"

(* what the uniform envelope must be, given which of the phases succeed *)
ToolEnvelopeContract(parseOk, parsedValue) ==
    LET tool == LookupTool(toolCall.name)
        valid == ToolRegistered /\ parseOk /\ ZodParse(tool, parsedValue).ok
        outcome == toolCall.outcome
    IN  /\ ~toolThrown
        /\ toolReturn # NotReturned
        /\ (~ToolRegistered \/ ~parseOk \/ ~valid \/ outcome.kind = "throw")
              => (toolReturn.success = FALSE /\ toolReturn.error # "")
        /\ toolReturn.success = TRUE <=> (ToolHandlerRan /\ outcome.kind = "return")
        /\ toolReturn.success = TRUE => toolReturn.result = outcome.result
        /\ (ToolHandlerRan /\ outcome.kind = "throw" /\ outcome.isError)
              => toolReturn = Failure(outcome.message)
        /\ (ToolRegistered /\ parseOk /\ ~valid)
              => LET issues == ZodParse(tool, parsedValue).issues
                 IN  /\ toolReturn.success = FALSE
                     /\ \A i \in 1..Len(issues) :
                            \E a \in 0..Len(toolReturn.error) :
                                SubSeq(toolReturn.error, a + 1, a + Len(issues[i].message))
                                    = issues[i].message
        /\ ToolHandlerRan <=> valid
        /\ ToolHandlerRan => toolTrace = <<"lookup", "parse", "validate", "handler">>

(* C6 as stated: an argument string that JSON.parse rejects yields the      *)
(* failure envelope; never throws; success exactly when the handler         *)
(* returned; the handler runs only after lookup, parsing and validation.    *)
C6_Original ==
    toolPc = "done" =>
        ToolEnvelopeContract(JSONParse(toolCall.rawArguments).ok,
                             JSONParse(toolCall.rawArguments).value)

(* C6 amended: executeAgentTool never throws and always returns the uniform *)
(* envelope; it is the failure envelope with a non-empty error for an       *)
(* unregistered name, for a non-blank argument string that is not valid     *)
(* JSON, for a schema failure (all issue messages in one string) and for a  *)
(* throwing handler; an empty or whitespace-only argument string is taken   *)
(* as the empty object {} and goes on to validation; success exactly when   *)
(* the handler returned; the handler runs only after lookup, parsing and    *)
(* validation succeeded, in that order.                                     *)
C6_ExecutorEnvelope ==
    toolPc = "done" =>
        IF ToolArgumentsBlank
        THEN ToolEnvelopeContract(TRUE, JObj(<<>>))
        ELSE ToolEnvelopeContract(JSONParse(toolCall.rawArguments).ok,
                                  JSONParse(toolCall.rawArguments).value)

C6_Witness ==
    /\ toolPc = "done"
    /\ toolCall.name = "sendEmail"
    /\ toolCall.outcome = HandlerThrowError("invalid recipient")
    /\ ToolHandlerRan
    /\ toolReturn = Failure("invalid recipient")

(***************************************************************************)
(* Claims about follow-up scheduling, checked under SpecSched.             *)
(***************************************************************************)
SchedCreated == schedReturn # NotReturned /\ ~schedReturn.threw

(* C7: the follow-up task the tool creates is never scheduled at or before  *)
(* the moment of the call, whatever runAt and whichever valid time zone.    *)
C7_Original ==
    SchedCreated => RowById(tasks, schedReturn.taskId).scheduledFor.n > clock


(***************************************************************************)
(* Claims about the instruction matcher, checked under SpecMatcher.        *)
(* matcher.before is the store as the call found it.                       *)
(***************************************************************************)
RowSet(rows) == {rows[i] : i \in 1..Len(rows)}
NewRows(rows, before) == {r \in RowSet(rows) : r.id \notin Ids(before)}
NewEvaluations == NewRows(evaluations, matcher.before.evaluations)
NewTasks == NewRows(tasks, matcher.before.tasks)
NewSteps == NewRows(steps, matcher.before.steps)
NewContexts == {c \in RowSet(contexts) : c \notin RowSet(matcher.before.contexts)}

(* the instruction is one the event must fire: same user, active, type among its triggers *)
MustFire(instruction) ==
    /\ instruction.userId = matcher.userId
    /\ instruction.status = "active"
    /\ instruction.triggers # NULL
    /\ matcher.event.type \in {instruction.triggers.items[i] :
                                  i \in 1..Len(instruction.triggers.items)}

TasksOf(instruction) == {t \in NewTasks : t.instructionId = JNum(instruction.id)}
EvaluationsOf(instruction) == {e \in NewEvaluations : e.instructionId = instruction.id}
PairsOf(instruction) ==
    {i \in 1..Len(matcher.evaluations) : matcher.evaluations[i].instructionId = instruction.id}

(* C3: when a call of evaluateInstructionsForEvent returns, every active    *)
(* instruction of the user whose triggers hold the event type has exactly   *)
(* one new matched evaluation and exactly one new pending instruction task  *)
(* (summary = its title, one pending seed step at index 0), its             *)
(* lastEvaluatedAt is set to a value >= the event's occurredAt, and the     *)
(* returned list holds exactly one pair per such instruction.               *)
C3_OneTaskPerMatch ==
    matcher.pc = "returned" =>
        /\ \A instruction \in RowSet(matcher.before.instructions) :
              MustFire(instruction) =>
                /\ Cardinality(EvaluationsOf(instruction)) = 1
                /\ \A e \in EvaluationsOf(instruction) :
                      e.outcome = "matched" /\ e.eventType = matcher.event.type
                /\ Cardinality(TasksOf(instruction)) = 1
                /\ \A t \in TasksOf(instruction) :
                      /\ t.status = "pending"
                      /\ t.type = "instruction"
                      /\ t.summary = JStr(instruction.title)
                      /\ t.userId = matcher.userId
                      /\ LET seeds == {st \in RowSet(steps) : st.taskId = t.id}
                         IN  /\ Cardinality(seeds) = 1
                             /\ \A st \in seeds : st.index = 0 /\ st.status = "pending"
                      /\ Cardinality(PairsOf(instruction)) = 1
                      /\ \A i \in PairsOf(instruction) : matcher.evaluations[i].taskId = t.id
                /\ LET touched == RowById(instructions, instruction.id).lastEvaluatedAt
                   IN  /\ touched # NULL
                       /\ matcher.event.occurredAt # NULL
                             => touched.n >= matcher.event.occurredAt.n
        /\ Len(matcher.evaluations)
              = Cardinality({i \in RowSet(matcher.before.instructions) : MustFire(i)})

C3_Witness ==
    /\ matcher.pc = "returned"
    /\ matcher.event.type = "gmail.message_created"
    /\ matcher.event.occurredAt = JNum(1)
    /\ Len(matcher.evaluations) = 2
    /\ Cardinality(NewTasks) = 2
    /\ Len(matcher.before.tasks) > 0

(* C4: a call creates no evaluation, task, step or context for an           *)
(* instruction whose triggers do not hold the event type exactly, or that   *)
(* is paused or archived, or that belongs to another user, and leaves its   *)
(* lastEvaluatedAt as it was.                                               *)
C4_NoTaskWithoutMatch ==
    matcher.pc # "idle" =>
        /\ \A instruction \in RowSet(matcher.before.instructions) :
              ~MustFire(instruction) =>
                /\ EvaluationsOf(instruction) = {}
                /\ TasksOf(instruction) = {}
                /\ RowById(instructions, instruction.id).lastEvaluatedAt
                      = instruction.lastEvaluatedAt
        /\ \A t \in NewTasks :
              \E instruction \in RowSet(matcher.before.instructions) :
                  MustFire(instruction) /\ t.instructionId = JNum(instruction.id)
        /\ \A st \in NewSteps : \E t \in NewTasks : st.taskId = t.id
        /\ \A c \in NewContexts : \E t \in NewTasks : c.taskId = t.id

C4_Witness ==
    /\ matcher.pc = "returned"
    /\ matcher.userId = "u1"
    /\ matcher.event.type = "gmail.message_created"
    /\ Cardinality(NewTasks) = 2
    /\ \A t \in NewTasks : t.instructionId \in {JNum(1), JNum(2)}
    /\ \E i \in RowSet(instructions) : i.id = 3 /\ i.status = "paused" /\ i.lastEvaluatedAt = NULL

(* C5: in every store state, a matched evaluation exists exactly when the   *)
(* task carrying its id in metadata.evaluationId exists, with its seed step *)
(* at index 0 and, when the event had a payload, its event context entry;   *)
(* a call that failed part-way left the rows of its committed matches and   *)
(* nothing else.                                                            *)
TaskOfEvaluation(e) ==
    {t \in RowSet(tasks) :
        /\ t.type = "instruction"
        /\ GetKey(t.metadata, "evaluationId") = JNum(e.id)}

C5_AtomicMatch ==
    /\ \A e \in RowSet(evaluations) :
          /\ e.outcome = "matched"
          /\ Cardinality(TaskOfEvaluation(e)) = 1
          /\ \A t \in TaskOfEvaluation(e) :
                /\ \E st \in RowSet(steps) : st.taskId = t.id /\ st.index = 0
                /\ e.eventPayload # NULL
                      => \E c \in RowSet(contexts) :
                            c.taskId = t.id /\ c.key = "event" /\ c.value = e.eventPayload
    /\ \A t \in RowSet(tasks) :
          t.type = "instruction"
              => \E e \in RowSet(evaluations) : GetKey(t.metadata, "evaluationId") = JNum(e.id)
    /\ \A st \in RowSet(steps) : \E t \in RowSet(tasks) : st.taskId = t.id
    /\ \A c \in RowSet(contexts) : \E t \in RowSet(tasks) : c.taskId = t.id
    /\ matcher.pc = "thrown" =>
          /\ Cardinality(NewEvaluations) = Len(matcher.evaluations)
          /\ Cardinality(NewTasks) = Len(matcher.evaluations)
          /\ Cardinality(NewSteps) = Len(matcher.evaluations)

C5_Witness ==
    /\ matcher.pc = "thrown"
    /\ matcher.failedAt = "task"
    /\ Len(matcher.evaluations) = 1
    /\ Cardinality(NewEvaluations) = 1
    /\ Cardinality(NewTasks) = 1

(***************************************************************************)
(* Claims about the task runner, checked under Spec.                       *)
(***************************************************************************)
TaskById(taskId) == RowById(tasks, taskId)
StepsOf(taskId) == {steps[i] : i \in {j \in 1..Len(steps) : steps[j].taskId = taskId}}
ClaimsOf(taskId) == {i \in 1..Len(claimed) : claimed[i].taskId = taskId}
Attempted(r) == runners[r].pc # "idle"
Skipped(r) == runners[r].pc = "returned" /\ runners[r].result.status = "skipped"
(* the runner's current call took the claim *)
HoldsClaim(r) == Attempted(r) /\ ~Skipped(r)

(* C1: a task is claimed at most once: of the runners that attempted the    *)
(* same task at most one took the claim and every other one returned       *)
(* skipped; an attempt on a pending or waiting task always takes it, so a  *)
(* task that was attempted is no longer pending or waiting; and the model  *)
(* rounds and tool handler calls of a task are all made by the one runner  *)
(* that claimed it.                                                        *)
C1_ExclusiveClaim ==
    /\ \A taskId \in TaskIds : Cardinality(ClaimsOf(taskId)) <= 1
    /\ \A r1, r2 \in Runners :
          (r1 # r2 /\ Attempted(r1) /\ Attempted(r2) /\ runners[r1].taskId = runners[r2].taskId)
              => /\ ~(HoldsClaim(r1) /\ HoldsClaim(r2))
                 /\ (HoldsClaim(r1) => runners[r2].result
                                          = RunnerResult(runners[r1].taskId, "skipped", ""))
    /\ \A r \in Runners :
          Attempted(r) => /\ ~ClaimEligible(TaskById(runners[r].taskId).status)
                          /\ (HoldsClaim(r) => \E i \in ClaimsOf(runners[r].taskId) :
                                                  claimed[i].runner = r)
    /\ \A e \in effects :
          /\ \E i \in ClaimsOf(e.taskId) : claimed[i].runner = e.runner
          /\ \A f \in effects : f.taskId = e.taskId => f.runner = e.runner

(* two runners went for the same task: one is executing its tools, the     *)
(* other has returned skipped                                              *)
C1_Witness ==
    \E r1, r2 \in Runners :
        /\ r1 # r2
        /\ runners[r1].taskId = runners[r2].taskId
        /\ runners[r1].pc = "tools"
        /\ Skipped(r2)
        /\ [taskId |-> runners[r1].taskId, runner |-> r1, kind |-> "tool"] \in effects

ReturnedAfterClaim(r) ==
    runners[r].pc = "returned" /\ runners[r].result.status \in {"completed", "failed"}

(* C2: when a call that took the claim has returned, the task is not       *)
(* running: it is completed when the call reports completed; when the call *)
(* reports failed the task is failed, its errorMessage is the reported     *)
(* error, which is the message of the Error that was raised, and no step   *)
(* of the task is running.                                                 *)
C2_NeverStuck ==
    \A r \in Runners :
        ReturnedAfterClaim(r) =>
            LET task == TaskById(runners[r].result.taskId)
            IN  /\ task.status # "running"
                /\ runners[r].result.status = "completed" => task.status = "completed"
                /\ runners[r].result.status = "failed" =>
                      /\ task.status = "failed"
                      /\ task.errorMessage = JStr(runners[r].result.error)
                      /\ runners[r].thrown.isError =>
                            runners[r].result.error = runners[r].thrown.message
                      /\ \A step \in StepsOf(task.id) : step.status # "running"

(* an await rejected with an Error while a step was running: the call      *)
(* returned failed, and the step is failed with the message                *)
C2_Witness ==
    \E r \in Runners :
        /\ ReturnedAfterClaim(r)
        /\ runners[r].result.status = "failed"
        /\ runners[r].thrown = Thrown("Model unavailable")
        /\ TaskById(runners[r].taskId).errorMessage = JStr("Model unavailable")
        /\ \E step \in StepsOf(runners[r].taskId) :
              /\ step.status = "failed"
              /\ step.error = JStr("Model unavailable")
              /\ step.completedAt = JNum(clock)

(* a call by r starts in this step *)
StartsCall(r) ==
    /\ runners[r].pc \in {"idle", "returned", "threw"}
    /\ runners'[r] # runners[r]

(* C8: a call on a task that is not pending or waiting returns skipped     *)
(* with no error in the same step, and changes no row of the store (tasks, *)
(* steps, contexts, instructions, evaluations), takes no claim and makes   *)
(* no model or tool call.                                                  *)
C8_SkippedLeavesNoTrace ==
    [][\A r \in Runners :
          (StartsCall(r) /\ ~ClaimEligible(TaskById(runners'[r].taskId).status))
              => /\ runners'[r].pc = "returned"
                 /\ runners'[r].result = RunnerResult(runners'[r].taskId, "skipped", "")
                 /\ storeVars' = storeVars
                 /\ claimed' = claimed
                 /\ effects' = effects]_vars

(* a call on a completed task returned skipped, although no runner of this *)
(* run ever held the task                                                  *)
C8_Witness ==
    \E r \in Runners :
        /\ Skipped(r)
        /\ TaskById(runners[r].taskId).status \in {"completed", "cancelled"}
        /\ ClaimsOf(runners[r].taskId) = {}

(* the tool message the conversation must hold for a call of the script,   *)
(* whose arguments pass the tool's validator                               *)
ExpectedToolMessage(call) ==
    ToolMessage(call.id, call.name,
        IF call.outcome.kind = "throw"
        THEN "{\"success\":false,\"error\":\""
             \o (IF call.outcome.isError THEN call.outcome.message ELSE "Tool execution failed")
             \o "\"}"
        ELSE "{\"success\":true,\"result\":" \o JSONStringify(call.outcome.result) \o "}")

ExpectedRound(round, executed) ==
    << AssistantToolCalls(round.content,
                          [i \in 1..Len(round.toolCalls) |-> ToolCallOf(round.toolCalls[i])]) >>
    \o [i \in 1..executed |-> ExpectedToolMessage(round.toolCalls[i])]

RECURSIVE ExpectedRounds(_, _)
ExpectedRounds(script, n) ==
    IF n = 0 THEN <<>>
    ELSE ExpectedRounds(script, n - 1) \o ExpectedRound(script[n], Len(script[n].toolCalls))

ExpectedConversation(runner) ==
    ExpectedRounds(runner.script, runner.iteration)
    \o (IF runner.pc = "tools"
        THEN ExpectedRound(runner.script[runner.iteration + 1],
                 Len(runner.script[runner.iteration + 1].toolCalls) - Len(runner.toolQueue))
        ELSE <<>>)

InAutomation(r) ==
    \/ runners[r].pc \in {"model", "tools", "completeStep", "completeTask"}
    \/ runners[r].pc = "returned" /\ runners[r].result.status = "completed"

(* C9: after the system and user messages the conversation is, round by    *)
(* round, the assistant's tool-call message followed by one tool message   *)
(* per requested call, in the order requested, each with the call's id and *)
(* the serialised envelope, which for a handler that threw is              *)
(* {"success":false,"error":<message>}; every call of a finished round has *)
(* its message, whatever the earlier calls returned; and no runner is ever *)
(* in the catch block because of a tool.                                   *)
C9_ToolFailureContinues ==
    \A r \in Runners :
        /\ runners[r].failedAt # "tool"
        /\ InAutomation(r) =>
              /\ Len(runners[r].chatMessages) >= 2
              /\ SubSeq(runners[r].chatMessages, 3, Len(runners[r].chatMessages))
                    = ExpectedConversation(runners[r])
              /\ runners[r].pc = "tools" => runners[r].toolQueue # <<>>

(* sendEmail threw "invalid recipient": its tool message is in the         *)
(* conversation, the next call of the round was executed, and the runner   *)
(* is at the next model round                                              *)
C9_Witness ==
    \E r \in Runners :
        /\ runners[r].pc = "model"
        /\ runners[r].iteration = 1
        /\ Len(runners[r].chatMessages) = 5
        /\ runners[r].chatMessages[3].role = "assistant"
        /\ runners[r].chatMessages[4]
              = ToolMessage("call_a", "sendEmail",
                            "{\"success\":false,\"error\":\"invalid recipient\"}")
        /\ runners[r].chatMessages[5].tool_call_id = "call_b"
        /\ TaskById(runners[r].taskId).status = "running"

FirstRoundMessage(r) ==
    /\ runners[r].pc = "returned"
    /\ runners[r].result.status = "completed"
    /\ runners[r].script[1].type = "message"

EndsWithText(r, text) ==
    LET task == TaskById(runners[r].taskId)
        step == RowById(steps, runners[r].nextStep.id)
    IN  /\ task.status = "completed"
        /\ task.completedAt # NULL
        /\ task.summary = JStr(Slice(text, 160))
        /\ step.taskId = task.id
        /\ step.status = "completed"
        /\ step.output = JObj(<<Entry("assistant", JStr(text)), Entry("tools", JArr(<<>>))>>)

(* C10 as stated: a call whose first model round is a message with text T  *)
(* and that reports completed leaves the task completed with completedAt   *)
(* set and summary the first 160 characters of T, and the step completed   *)
(* with output {assistant: T, tools: []}.                                  *)
C10_Original ==
    \A r \in Runners : FirstRoundMessage(r) => EndsWithText(r, runners[r].script[1].content)

(* C10: the same for a text T that has a character other than white space; *)
(* for an empty or all-white-space T the summary and the assistant text    *)
(* are the fixed completion notice.                                        *)
C10_FirstRoundMessage ==
    \A r \in Runners :
        FirstRoundMessage(r) =>
            IF IsBlank(runners[r].script[1].content)
            THEN EndsWithText(r, GenericNotice)
            ELSE EndsWithText(r, runners[r].script[1].content)

(* a first-round message longer than the summary limit: the summary is its *)
(* first 160 characters, the step keeps the whole text                     *)
C10_Witness ==
    \E r \in Runners :
        /\ FirstRoundMessage(r)
        /\ Len(runners[r].script[1].content) > 160
        /\ Len(TaskById(runners[r].taskId).summary.s) = 160
        /\ EndsWithText(r, runners[r].script[1].content)


(* the model rounds a runner has made in its run: one per assistant        *)
(* tool-call message of the conversation, and the one that answered with a *)
(* message                                                                 *)
ModelRoundsMade(r) ==
    Cardinality({i \in 1..Len(runners[r].chatMessages) :
                    runners[r].chatMessages[i].role = "assistant"})
    + (IF /\ runners[r].pc \in {"completeStep", "completeTask", "returned"}
          /\ runners[r].iteration < 6
          /\ runners[r].script # <<>>
       THEN 1 ELSE 0)

BudgetExhausted(r) ==
    /\ runners[r].iteration = 6
    /\ \A i \in 1..6 : runners[r].script[i].type = "tool_calls"

InRun(r) == runners[r].pc \notin {"idle", "returned", "threw"}

(* a next step of the run is possible: at a tool call there is a call to   *)
(* make (the executor returns for every call), elsewhere the step itself   *)
CanStep(r) ==
    IF runners[r].pc = "tools"
    THEN runners[r].toolQueue # <<>>
    ELSE ENABLED RunnerProgress(r)

(* what is left of a run, as a natural number: the rounds and the queued   *)
(* tool calls ahead inside the loop, the writes ahead outside it           *)
RunRank(r) ==
    LET runner == runners[r]
        roundsLeft == IF runner.iteration <= 6 THEN 6 - runner.iteration ELSE 0
    IN  CASE runner.pc = "load"         -> 1000
          [] runner.pc = "createStep"   -> 990
          [] runner.pc = "startStep"    -> 980
          [] runner.pc = "retrieve"     -> 970
          [] runner.pc = "model"        -> 100 + 20 * roundsLeft + 10
          [] runner.pc = "tools"        -> 100 + 20 * roundsLeft + Min(Len(runner.toolQueue), 9)
          [] runner.pc = "completeStep" -> 50
          [] runner.pc = "completeTask" -> 40
          [] runner.pc = "failTask"     -> 30
          [] runner.pc = "failSteps"    -> 20
          [] OTHER                      -> 0

(* C11: a run makes at most 6 model rounds and is never at a model round   *)
(* or a tool call after the sixth; when all 6 rounds asked for tools the   *)
(* assistant text is the generic completion notice, the tools of all six   *)
(* rounds are in the output, and a run that returns then reports completed *)
(* with the task completed and the notice as its summary; and the run      *)
(* terminates: while it lasts a next step is possible whenever its awaits  *)
(* return, and every step of it lowers a natural-number measure.           *)
C11_BoundedLoop ==
    /\ [](\A r \in Runners :
            /\ ModelRoundsMade(r) <= 6
            /\ runners[r].iteration <= 6
            /\ runners[r].pc = "model" => runners[r].iteration < 6
            /\ BudgetExhausted(r) =>
                  /\ runners[r].pc \in {"completeStep", "completeTask", "returned"}
                  /\ runners[r].execution.output
                        = JObj(<<Entry("assistant", JStr(GenericNotice)),
                                 Entry("tools", JArr(runners[r].executedTools))>>)
                  /\ Len(runners[r].executedTools) = 6
                  /\ runners[r].pc = "returned" =>
                        /\ runners[r].result.status = "completed"
                        /\ TaskById(runners[r].taskId).status = "completed"
                        /\ TaskById(runners[r].taskId).summary = JStr(GenericNotice))
    /\ [](\A r \in Runners : InRun(r) => CanStep(r))
    /\ [][\A r \in Runners :
            (InRun(r) /\ runners'[r] # runners[r]) => RunRank(r)' < RunRank(r)]_vars

(* six rounds of tool calls, then the run returned completed with the      *)
(* notice, and the seventh answer of the model was never asked for         *)
C11_Witness ==
    \E r \in Runners :
        /\ runners[r].pc = "returned"
        /\ BudgetExhausted(r)
        /\ Len(runners[r].script) = 7
        /\ ModelRoundsMade(r) = 6
        /\ TaskById(runners[r].taskId).summary = JStr(GenericNotice)


(***************************************************************************)
(* Claims about the automation cycle.                                      *)
(***************************************************************************)
(* the outcomes whose sync part is over: the users done, and the user at   *)
(* the task processing                                                     *)
SyncedOutcomes ==
    {cycle.outcomes[i] : i \in 1..Len(cycle.outcomes)}
    \cup (IF cycle.pc \in {"findDue", "task", "awaitTask"} THEN {cycle.outcome} ELSE {})

SyncsOf(userId, source) ==
    {cycle.syncs[i].sync : i \in {j \in 1..Len(cycle.syncs) :
        cycle.syncs[j].userId = userId /\ cycle.syncs[j].source = source}}

Connected(userId, provider) ==
    \E i \in 1..Len(accounts.credentials) :
        accounts.credentials[i] = [userId |-> userId, provider |-> provider]

Recorded(sync, fallback) ==
    IF ~sync.threw THEN [t |-> "counts", processed |-> 1, created |-> 1, updated |-> 0]
    ELSE IF sync.thrown.isError THEN [t |-> "error", error |-> sync.thrown.message]
    ELSE [t |-> "error", error |-> fallback]

SourceField(o, source, provider, fallback) ==
    IF Connected(o.userId, provider)
    THEN /\ Cardinality(SyncsOf(o.userId, source)) = 1
         /\ \A sync \in SyncsOf(o.userId, source) : o[source] = Recorded(sync, fallback)
    ELSE /\ SyncsOf(o.userId, source) = {}
         /\ o[source] = Absent

StillDue(userId) ==
    {tasks[i].id : i \in {j \in 1..Len(tasks) :
        /\ tasks[j].userId = userId
        /\ tasks[j].status \in {"pending", "waiting"}
        /\ tasks[j].scheduledFor = NULL \/ tasks[j].scheduledFor.n <= clock}}

(* C12: for every user whose syncs are over, a source has run exactly when *)
(* its integration is connected and its outcome field is absent otherwise; *)
(* a sync that threw is recorded as {error: message} (the fixed text when  *)
(* the thrown value is no Error) and one that returned as its counts,      *)
(* whatever the other sources did; the cycle never rejects at a sync; and  *)
(* a cycle that returns has one outcome per selected user, in order, with  *)
(* a result for each task it found due, none of them left due when the     *)
(* batch size is the default.                                              *)
C12_SyncIsolation ==
    /\ \A o \in SyncedOutcomes :
          /\ o.integrations = [google |-> Connected(o.userId, "google"),
                               hubspot |-> Connected(o.userId, "hubspot")]
          /\ SourceField(o, "gmail", "google", "Gmail sync failed")
          /\ SourceField(o, "calendar", "google", "Calendar sync failed")
          /\ SourceField(o, "hubspot", "hubspot", "HubSpot sync failed")
    /\ cycle.pc = "threw" => cycle.failedAt \notin {"gmail", "calendar", "hubspot"}
    /\ cycle.pc = "returned" =>
          /\ cycle.result.usersProcessed = Len(cycle.userIds)
          /\ Len(cycle.result.outcomes) = Len(cycle.userIds)
          /\ \A i \in 1..Len(cycle.userIds) :
                LET o == cycle.result.outcomes[i]
                IN  /\ o.userId = cycle.userIds[i]
                    /\ \A k \in 1..Len(o.tasks) : o.tasks[k].status \in {"completed", "failed"}
                    /\ cycle.options.taskBatchSize = NULL => StillDue(o.userId) = {}

(* Google connected and HubSpot not: the Gmail sync threw, the calendar    *)
(* sync returned, the HubSpot field is absent, two tasks of the user and   *)
(* the task of the next user were processed                                *)
C12_Witness ==
    /\ cycle.pc = "returned"
    /\ Len(cycle.result.outcomes) = 2
    /\ LET o == cycle.result.outcomes[1]
       IN  /\ o.integrations = [google |-> TRUE, hubspot |-> FALSE]
           /\ o.gmail = [t |-> "error", error |-> "Gmail quota exceeded"]
           /\ o.calendar.t = "counts"
           /\ o.hubspot = Absent
           /\ Len(o.tasks) = 2
    /\ Len(cycle.result.outcomes[2].tasks) = 1


(* the results of task processing the cycle holds: of the users done and   *)
(* of the batch under way                                                  *)
CycleResults ==
    UNION {{cycle.outcomes[i].tasks[k] : k \in 1..Len(cycle.outcomes[i].tasks)} :
              i \in 1..Len(cycle.outcomes)}
    \cup {cycle.results[k] : k \in 1..Len(cycle.results)}

(* C13 as stated: an error arising while a task is processed never aborts  *)
(* the cycle, the task it hit is failed with the message persisted and     *)
(* reported as {status: failed, error}, and the cycle returns one outcome  *)
(* per user.                                                               *)
C13_Original ==
    /\ ~(cycle.pc = "threw" /\ cycle.failedAt \in {"task", "claim"})
    /\ \A result \in CycleResults :
          result.status = "failed" =>
              /\ TaskById(result.taskId).status = "failed"
              /\ TaskById(result.taskId).errorMessage = JStr(result.error)


(***************************************************************************)
(* Claims about one model round.                                           *)
(***************************************************************************)
(* the chunks whose delta the round reads, their text and their fragments  *)
ReadsDelta(chunk) == chunk.choice /\ chunk.delta
TextOf(chunk) ==
    IF ReadsDelta(chunk) /\ chunk.content # NULL THEN chunk.content.s ELSE ""
FragmentSeenUpTo(n) ==
    \E i \in 1..n : ReadsDelta(chunksSeen[i]) /\ Len(chunksSeen[i].tool_calls) > 0

RECURSIVE StreamText(_)
StreamText(n) == IF n = 0 THEN "" ELSE StreamText(n - 1) \o TextOf(chunksSeen[n])

StreamFinishReason ==
    LET carrying == {i \in 1..Len(chunksSeen) :
                        /\ chunksSeen[i].choice
                        /\ chunksSeen[i].finish_reason # NULL
                        /\ chunksSeen[i].finish_reason.s # ""}
    IN  IF carrying = {} THEN NULL ELSE chunksSeen[MaxOf(carrying)].finish_reason

(* the fragments of the stream for one call index, in stream order *)
RECURSIVE FragmentsOf(_, _)
FragmentsOf(n, index) ==
    IF n = 0 THEN <<>>
    ELSE FragmentsOf(n - 1, index)
         \o (IF ReadsDelta(chunksSeen[n])
             THEN SelectSeq(chunksSeen[n].tool_calls,
                            LAMBDA f : (IF f.index = NULL THEN 0 ELSE f.index.n) = index)
             ELSE <<>>)

LastGiven(fragments, field, default) ==
    LET given == {i \in 1..Len(fragments) :
                     fragments[i][field] # NULL /\ fragments[i][field].s # ""}
    IN  IF given = {} THEN default ELSE fragments[MaxOf(given)][field].s

RECURSIVE JoinedArguments(_)
JoinedArguments(fragments) ==
    IF Len(fragments) = 0 THEN ""
    ELSE (IF Head(fragments).arguments = NULL THEN "" ELSE Head(fragments).arguments.s)
         \o JoinedArguments(Tail(fragments))

StreamedCall(index) ==
    LET fragments == FragmentsOf(Len(chunksSeen), index)
        joined == JoinedArguments(fragments)
    IN  [id |-> LastGiven(fragments, "id", "tool_call_" \o ToString(index)),
         type |-> "function",
         function |-> [name |-> LastGiven(fragments, "name", ""),
                       arguments |-> IF joined = "" THEN "{}" ELSE joined]]

StreamedCalls ==
    SelectSeq(<<StreamedCall(0), StreamedCall(1)>>, LAMBDA call : call.function.name # "")

(* C14: a round that returns has one of two shapes: tool_calls, with the   *)
(* calls put together from the fragments of the stream, exactly when some  *)
(* chunk carried a tool-call fragment or the stream's finish reason is     *)
(* tool_calls; otherwise message; in both the content is all text deltas   *)
(* of the stream joined in stream order.                                   *)
C14_TwoShapes ==
    modelRun.pc = "returned" =>
        IF FragmentSeenUpTo(Len(chunksSeen)) \/ StreamFinishReason = JStr("tool_calls")
        THEN modelRun.result = [type |-> "tool_calls",
                                content |-> StreamText(Len(chunksSeen)),
                                toolCalls |-> StreamedCalls]
        ELSE modelRun.result = [type |-> "message", content |-> StreamText(Len(chunksSeen))]

(* a round returned tool_calls on the finish reason alone, with text and   *)
(* no call                                                                 *)
C14_Witness ==
    /\ modelRun.pc = "returned"
    /\ ~FragmentSeenUpTo(Len(chunksSeen))
    /\ modelRun.result.type = "tool_calls"
    /\ modelRun.result.content = "Hello"

RECURSIVE ForwardedUpTo(_)
ForwardedUpTo(n) ==
    IF n = 0 THEN <<>>
    ELSE ForwardedUpTo(n - 1)
         \o (IF TextOf(chunksSeen[n]) # "" /\ ~FragmentSeenUpTo(n)
             THEN <<TextOf(chunksSeen[n])>> ELSE <<>>)

IsPrefix(a, b) == Len(a) <= Len(b) /\ SubSeq(b, 1, Len(a)) = a

(* C15: at every point of a round with an onToken callback the tokens      *)
(* forwarded are, in stream order, exactly the text deltas of the chunks   *)
(* up to and including which no tool-call fragment was seen; every text    *)
(* delta is in the content all the same; and the forwarded tokens joined   *)
(* are a prefix of the content.  Without a callback nothing is forwarded.  *)
C15_ForwardedPrefix ==
    modelRun.pc # "idle" =>
        /\ modelRun.forwarded = IF modelRun.onToken THEN ForwardedUpTo(Len(chunksSeen)) ELSE <<>>
        /\ modelRun.content = StreamText(Len(chunksSeen))
        /\ IsPrefix(JoinStrings(modelRun.forwarded, ""), modelRun.content)

(* text, a tool-call fragment, then text again: the second text is in the  *)
(* content and was not forwarded                                           *)
C15_Witness ==
    /\ modelRun.pc = "returned"
    /\ modelRun.onToken
    /\ modelRun.toolCallDetected
    /\ modelRun.forwarded = <<"Hel">>
    /\ modelRun.content = "Hello"


(***************************************************************************)
(* Claims about the CRM upsert tool.                                       *)
(***************************************************************************)
ContactRows(contactId) ==
    {i \in 1..Len(crm.contacts) :
        /\ crm.contacts[i].userId = CrmUser
        /\ crm.portalId # NULL /\ crm.contacts[i].portalId = crm.portalId.s
        /\ crm.contacts[i].contactId = contactId}

(* two calls with the same contact id and properties that both returned, *)
(* with no call made since the second                                     *)
RepeatedCalls ==
    {pair \in (1..Len(crmCalls)) \X (1..Len(crmCalls)) :
        /\ pair[1] < pair[2]
        /\ pair[2] = Len(crmCalls) /\ crmCall.pc \in {"returned", "threw"}
        /\ crmCalls[pair[1]].input = crmCalls[pair[2]].input
        /\ crmCalls[pair[1]].input.contactId # NULL
        /\ crmCalls[pair[1]].status = "returned"
        /\ crmCalls[pair[2]].status = "returned"}

(* C16 as stated: after two calls with the same contactId and properties   *)
(* exactly one contact record is stored for the user, portal and contact   *)
(* id.                                                                     *)
C16_Original ==
    \A pair \in RepeatedCalls :
        Cardinality(ContactRows(crmCalls[pair[1]].input.contactId.s)) = 1

(* C16: no two stored contact records share user, portal and contact id;   *)
(* after two returned calls with the same contactId and properties there   *)
(* is exactly one record for the key when the ingestion of either call     *)
(* was stored, holding HubSpot's properties of that contact, and none when *)
(* both were dropped; and when both were stored the second wrote the row   *)
(* the first had written.                                                  *)
C16_UpsertIdempotent ==
    /\ \A i, j \in 1..Len(crm.contacts) :
          (/\ crm.contacts[i].userId = crm.contacts[j].userId
           /\ crm.contacts[i].portalId = crm.contacts[j].portalId
           /\ crm.contacts[i].contactId = crm.contacts[j].contactId) => i = j
    /\ \A pair \in RepeatedCalls :
          LET first == crmCalls[pair[1]]
              second == crmCalls[pair[2]]
              rows == ContactRows(first.input.contactId.s)
          IN  /\ Cardinality(rows) = IF \E k \in 1..Len(crmCalls) :
                                          /\ crmCalls[k].persisted
                                          /\ crmCalls[k].contactId = first.input.contactId.s
                                     THEN 1 ELSE 0
              /\ (first.persisted /\ second.persisted) =>
                    /\ first.rowId = second.rowId
                    /\ \A i \in rows :
                          /\ crm.contacts[i].id = first.rowId
                          /\ crm.contacts[i].properties
                                = RemoteGet(crm.remote, first.input.contactId.s).properties

(* two calls for contact c1 with the same properties, both stored: one row *)
C16_Witness ==
    \E pair \in RepeatedCalls :
        /\ crmCalls[pair[1]].persisted /\ crmCalls[pair[2]].persisted
        /\ crmCalls[pair[1]].input.properties = PropsB
        /\ Cardinality(ContactRows("c1")) = 1
        /\ Len(crm.contacts) = 1
        /\ Len(tasks) = 2


(***************************************************************************)
(* Claims about authoring instructions.                                    *)
(***************************************************************************)
(* C17 as stated: every instruction in status active has a trigger list    *)
(* that is not empty.                                                      *)
C17_Original ==
    \A i \in 1..Len(instructions) :
        instructions[i].status = "active" =>
            /\ instructions[i].triggers # NULL
            /\ Len(instructions[i].triggers.items) > 0


(***************************************************************************)
(* Claims about steps and terminal tasks, under overlapping runners.       *)
(***************************************************************************)
RunningSteps(taskId) == {row.id : row \in {q \in StepsOf(taskId) : q.status = "running"}}

(* the runner works on a step it has found or created and started *)
AtStep(r) == runners[r].pc \in {"retrieve", "model", "tools", "completeStep"}

(* C18: no task ever has two running steps; while a runner works on a step *)
(* that step is the only running step of its task; and a step is started   *)
(* or created only for a task without a running step, a new step only for  *)
(* a task without any pending or running step.                             *)
C18_OneRunningStep ==
    /\ [](\A taskId \in TaskIds : Cardinality(RunningSteps(taskId)) <= 1)
    /\ [](\A r \in Runners : AtStep(r) => RunningSteps(runners[r].taskId) = {runners[r].nextStep.id})
    /\ [][\A taskId \in TaskIds :
            /\ RunningSteps(taskId)' # RunningSteps(taskId) /\ RunningSteps(taskId)' # {}
                  => RunningSteps(taskId) = {}
            /\ Cardinality(StepsOf(taskId)') > Cardinality(StepsOf(taskId))
                  => \A row \in StepsOf(taskId) : row.status \notin {"pending", "running"}]_vars

(* a waiting task whose step was left running is taken up again: the       *)
(* runner works on that step, which was neither restarted nor joined by a  *)
(* second one                                                              *)
C18_Witness ==
    \E r \in Runners :
        /\ runners[r].pc = "model"
        /\ runners[r].taskId = 1
        /\ Cardinality(StepsOf(1)) = 1
        /\ \A row \in StepsOf(1) : row.status = "running" /\ row.startedAt = JNum(0)


Terminal(taskId) == TaskById(taskId).status \in {"completed", "failed", "cancelled"}
EffectsOf(taskId) == {e \in effects : e.taskId = taskId}

(* the runner is inside the try block of a call that took the claim *)
Working(r) ==
    runners[r].pc \in {"load", "createStep", "startStep", "retrieve", "model", "tools",
                       "completeStep", "completeTask", "failTask"}

(* C19: a completed, failed or cancelled task stays as it is: no step of   *)
(* any runner changes its row, no claim on it succeeds, no model round or  *)
(* tool call is made for it, and no runner is at work on it; a call for it *)
(* returns skipped.                                                        *)
C19_TerminalIsFinal ==
    /\ [](\A taskId \in TaskIds : Terminal(taskId) =>
            \A r \in Runners : ~(Working(r) /\ runners[r].taskId = taskId))
    /\ [][\A taskId \in TaskIds : Terminal(taskId) =>
            /\ TaskById(taskId)' = TaskById(taskId)
            /\ ClaimsOf(taskId)' = ClaimsOf(taskId)
            /\ EffectsOf(taskId)' = EffectsOf(taskId)
            /\ \A r \in Runners :
                  (runners'[r] # runners[r] /\ runners'[r].taskId = taskId
                      /\ runners[r].pc \in {"idle", "returned", "threw"})
                  => Skipped(r)']_vars

(* a task failed in the hands of one runner, and the later call of the     *)
(* other runner for it returned skipped                                    *)
C19_Witness ==
    \E r, q \in Runners :
        /\ r # q
        /\ runners[r].pc = "returned" /\ runners[r].result.status = "failed"
        /\ runners[q].taskId = runners[r].taskId
        /\ Skipped(q)
        /\ TaskById(runners[r].taskId).status = "failed"
        /\ Cardinality(ClaimsOf(runners[r].taskId)) = 1


(* the hint carried by the call's metadata and the client's zone, when valid *)
ExplicitHint == extractTimeZoneFromMetadata(schedCall.metadata)
ClientZoneValid == schedCall.timeZone # "" /\ isValidTimeZone(Trim(schedCall.timeZone))

(* C20, as stated: the handler schedules in the valid explicit hint of the *)
(* call when there is one, else in the valid client time zone of the       *)
(* conversation, else in UTC.                                              *)
C20_Original ==
    schedReturn # NotReturned =>
        schedReturn.timeZone =
            IF ExplicitHint # NULL THEN ExplicitHint.s
            ELSE IF ClientZoneValid THEN Trim(schedCall.timeZone)
            ELSE "UTC"


(* the zone written into the follow-up task's scheduling record *)
RecordedZone ==
    GetKey(GetKey(tasks[Len(tasks)].metadata, "followUpScheduling"), "timeZone")

ZoneByPrecedence ==
    IF ClientZoneValid THEN Trim(schedCall.timeZone)
    ELSE IF ExplicitHint # NULL THEN ExplicitHint.s
    ELSE "UTC"

(* C20: the handler schedules in the valid client time zone of the         *)
(* conversation when there is one, else in the valid hint of the call's    *)
(* metadata, else in UTC; the task it creates records that zone.           *)
C20_ClientZoneFirst ==
    schedReturn # NotReturned =>
        /\ schedReturn.timeZone = ZoneByPrecedence
        /\ ~schedReturn.threw => RecordedZone = JStr(ZoneByPrecedence)

(* a call with a valid hint and a different valid client zone was scheduled *)
(* in the client zone                                                       *)
C20_Witness ==
    /\ schedReturn # NotReturned /\ ~schedReturn.threw
    /\ ExplicitHint = JStr("America/New_York")
    /\ schedCall.timeZone = " UTC"
    /\ RecordedZone = JStr("UTC")


(***************************************************************************)
(* Claims about the time resolution of scheduleFollowUpTask.               *)
(***************************************************************************)
SchedParsed == DateParse(schedCall.runAt).n
SchedTask == RowById(tasks, schedReturn.taskId)
SchedInstant == SchedTask.scheduledFor.n
SchedRecord == GetKey(SchedTask.metadata, "followUpScheduling")

(* the instant shows the time of day of runAt on the given local day *)
PlacedOn(instant, day, timeZone) ==
    /\ getDatePartsInTimeZone(instant, timeZone) = day
    /\ getTimePartsInTimeZone(instant, timeZone)
          = getTimePartsInTimeZone(SchedParsed, timeZone)

Today(timeZone) == getDatePartsInTimeZone(clock, timeZone)

(* some instant after now shows the time of day of runAt on today's date *)
TodayStillAhead(timeZone) ==
    \E instant \in (clock + 1)..(clock + 2 * DAY_IN_MS) : PlacedOn(instant, Today(timeZone), timeZone)

RecordsAdjustment ==
    /\ HasKey(SchedRecord, "adjustment")
    /\ GetKey(SchedRecord, "adjustment")
          = JObj(<<Entry("type", JStr("shifted_forward")), Entry("reason", JStr("input_in_past"))>>)
    /\ GetKey(SchedRecord, "inputRunAt").iso = schedCall.runAt
    /\ GetKey(SchedRecord, "parsedRunAt").iso = ToISOString(SchedParsed)
    /\ GetKey(SchedRecord, "scheduledRunAt").iso = ToISOString(SchedInstant)

(* C21, as stated: a runAt after now is used as it is and no adjustment is *)
(* recorded; otherwise the time of day of runAt is placed on today's date  *)
(* in the resolved zone when that is after now, and on tomorrow's date     *)
(* when it is not; an instant other than runAt comes with the adjustment   *)
(* record.                                                                 *)
C21_Original ==
    SchedCreated =>
        LET timeZone == schedReturn.timeZone
        IN  /\ IF SchedParsed > clock
               THEN SchedInstant = SchedParsed /\ ~HasKey(SchedRecord, "adjustment")
               ELSE IF TodayStillAhead(timeZone)
               THEN SchedInstant > clock /\ PlacedOn(SchedInstant, Today(timeZone), timeZone)
               ELSE PlacedOn(SchedInstant, Today(timeZone) + 1, timeZone)
            /\ SchedInstant # SchedParsed => RecordsAdjustment


(***************************************************************************)
(* Claims about mergeTaskMetadata, checked under SpecMerge.                *)
(***************************************************************************)
Keys(obj) == {obj.entries[i].k : i \in 1..Len(obj.entries)}

(* obj[key]: undefined for a key the object does not have *)
Lookup(obj, key) == IF HasKey(obj, key) THEN GetKey(obj, key) ELSE Absent

(* the same JSON value: a property holding undefined counts as not there *)
SameJson(a, b) ==
    /\ a.t = b.t
    /\ IF a.t = "object"
       THEN \A key \in Keys(a) \cup Keys(b) : Lookup(a, key) = Lookup(b, key)
       ELSE a = b

(* C22: with no updates (null or undefined) the stored metadata is kept as *)
(* it is; with two plain objects the result is an object in which every    *)
(* key of updates has the value of updates, every key of existing alone    *)
(* keeps its value, and there is no other key; in every other case the     *)
(* result is updates.                                                      *)
C22_ShallowMerge ==
    mergeCall.pc = "returned" =>
        LET existing == mergeCall.existing
            updates == mergeCall.updates
            result == mergeCall.result
        IN  IF updates \in {NULL, Absent} THEN result = existing
            ELSE IF existing.t = "object" /\ updates.t = "object"
            THEN /\ result.t = "object"
                 /\ \A key \in Keys(updates) : Lookup(result, key) = Lookup(updates, key)
                 /\ \A key \in Keys(existing) \ Keys(updates) :
                       Lookup(result, key) = Lookup(existing, key)
                 /\ Keys(result) \subseteq Keys(existing) \cup Keys(updates)
                 /\ Cardinality(Keys(result)) = Len(result.entries)
            ELSE SameJson(result, updates)

(* a run's update of one key leaves the other stored key in place *)
C22_Witness ==
    /\ mergeCall.pc = "returned"
    /\ mergeCall.existing = JObj(<<Entry("source", JStr("gmail")), Entry("attempts", JNum(1))>>)
    /\ mergeCall.updates = JObj(<<Entry("attempts", JNum(3))>>)
    /\ mergeCall.result = JObj(<<Entry("source", JStr("gmail")), Entry("attempts", JNum(3))>>)


(***************************************************************************)
(* Claims about the automation entry point, checked under SpecRoute.       *)
(***************************************************************************)
SecretConfigured == Truthy(request.secret)
Authorized ==
    /\ request.authorization # NULL
    /\ request.authorization.s = "Bearer " \o request.secret.s
TaskLimitGiven == Truthy(request.taskLimit)
PositiveInteger(text) == ParseWholeNumber(text) # NULL /\ ParseWholeNumber(text).n > 0

(* no sync has run and no task has been touched *)
NothingRan ==
    /\ cycle = CycleAtRest
    /\ DB = CycleStore
    /\ RunnerIdle

(* C23, as stated: a cycle runs only for a request whose Authorization     *)
(* header is exactly Bearer <secret> of a configured secret; without a     *)
(* configured secret the answer is 500, with a missing or different header *)
(* 401, with a taskLimit that is not a positive integer 400, and in these  *)
(* cases no sync and no task processing has taken place.                   *)
C23_Original ==
    /\ ~NothingRan => SecretConfigured /\ Authorized
    /\ request.pc = "responded" =>
          IF ~SecretConfigured THEN request.response.status = 500 /\ NothingRan
          ELSE IF ~Authorized THEN request.response.status = 401 /\ NothingRan
          ELSE (TaskLimitGiven /\ ~PositiveInteger(request.taskLimit.s))
                  => request.response.status = 400 /\ NothingRan


(***************************************************************************)
(* Claims about repeated events, checked under SpecMatcher.                *)
(***************************************************************************)
CallsFor(userId, event) ==
    {i \in 1..Len(matcher.calls) :
        matcher.calls[i].userId = userId /\ matcher.calls[i].event = event}

(* the user's active instructions whose trigger list holds the event type *)
Firing(userId, event) ==
    {row \in RowSet(instructions) :
        /\ row.userId = userId /\ row.status = "active"
        /\ row.triggers # NULL
        /\ event.type \in {row.triggers.items[i] : i \in 1..Len(row.triggers.items)}}

EvaluationsFor(userId, event) ==
    {row \in RowSet(evaluations) :
        /\ row.userId = userId
        /\ row.eventType = event.type
        /\ row.eventPayload = event.payload}

TasksFor(userId, event) ==
    {row \in RowSet(tasks) :
        \E e \in EvaluationsFor(userId, event) :
            GetKey(row.metadata, "evaluationId") = JNum(e.id)}

(* C24: when the N calls made for a user and an event have all returned,   *)
(* and M active instructions of the user hold the event's type among their *)
(* triggers, the store has N * M evaluations and N * M tasks for the event, *)
(* N of each for every such instruction, every task pending and of its own *)
(* evaluation.                                                             *)
C24_NoDeduplication ==
    matcher.pc # "loop" =>
        \A userId \in MatcherUsers, event \in MatcherEvents :
            (\A i \in CallsFor(userId, event) : matcher.calls[i].status = "returned") =>
                LET N == Cardinality(CallsFor(userId, event))
                    M == Cardinality(Firing(userId, event))
                IN  /\ Cardinality(EvaluationsFor(userId, event)) = N * M
                    /\ Cardinality(TasksFor(userId, event)) = N * M
                    /\ \A row \in Firing(userId, event) :
                          /\ Cardinality({e \in EvaluationsFor(userId, event) :
                                             e.instructionId = row.id}) = N
                          /\ Cardinality({t \in TasksFor(userId, event) :
                                             t.instructionId = JNum(row.id)}) = N
                    /\ \A t \in TasksFor(userId, event) : t.status = "pending"
                    /\ \A e \in EvaluationsFor(userId, event) :
                          Cardinality({t \in TasksFor(userId, event) :
                              GetKey(t.metadata, "evaluationId") = JNum(e.id)}) = 1

(* the same event evaluated twice for a user with two matching instructions *)
C24_Witness ==
    /\ matcher.pc = "returned"
    /\ \E userId \in MatcherUsers, event \in MatcherEvents :
          /\ Cardinality(CallsFor(userId, event)) = 2
          /\ \A i \in CallsFor(userId, event) : matcher.calls[i].status = "returned"
          /\ Cardinality(Firing(userId, event)) = 2
          /\ Cardinality(TasksFor(userId, event)) = 4
          /\ Cardinality(EvaluationsFor(userId, event)) = 4


(***************************************************************************)
(* Claims about a runner that dies mid-task, checked under SpecCrash.      *)
(***************************************************************************)
Crashed(r) == runners[r].pc = "crashed"

(* what processPendingAgentTasks would select for the task's user now *)
Selected(taskId) ==
    \E i \in 1..Len(DueTasks(DB, TaskById(taskId).userId, clock, Len(tasks))) :
        DueTasks(DB, TaskById(taskId).userId, clock, Len(tasks))[i] = taskId

(* C25: the task of a runner that died after its claim and before the      *)
(* write that ends the task is in status running and stays as it is: no    *)
(* selection holds it, no later claim of it succeeds, and no step of any   *)
(* runner changes its row.                                                 *)
C25_CrashedStaysRunning ==
    /\ [](\A r \in Runners : Crashed(r) =>
            /\ TaskById(runners[r].taskId).status = "running"
            /\ ~Selected(runners[r].taskId)
            /\ \A q \in Runners \ {r} :
                  runners[q].taskId = runners[r].taskId =>
                      runners[q].pc \in {"idle", "returned"} /\ Skipped(q))
    /\ [][\A r \in Runners : Crashed(r) =>
            /\ Crashed(r)'
            /\ TaskById(runners[r].taskId)' = TaskById(runners[r].taskId)
            /\ ClaimsOf(runners[r].taskId)' = ClaimsOf(runners[r].taskId)]_vars

(* a runner died during its model loop and the other runner's later call   *)
(* for the task was skipped                                                *)
C25_Witness ==
    \E r, q \in Runners :
        /\ r # q
        /\ Crashed(r) /\ runners[r].taskId = 1
        /\ \E e \in effects : e.taskId = 1 /\ e.runner = r
        /\ runners[q].taskId = 1 /\ Skipped(q)
        /\ TaskById(1).status = "running"

(***************************************************************************)
(* C26: processPendingAgentTasks selects only tasks of the given user in   *)
(* status pending or waiting whose scheduledFor is null or not after the   *)
(* time of the call, at most limit of them (5 when no limit is given); it  *)
(* hands them to the runner one at a time, in order, and a call that       *)
(* returns has one result per selected task; no task is claimed before its *)
(* scheduledFor time.                                                      *)
(***************************************************************************)
BatchLimit ==
    IF cycle.options.taskBatchSize = NULL THEN 5 ELSE cycle.options.taskBatchSize.n

DueAt(task, now) ==
    /\ task.status \in {"pending", "waiting"}
    /\ task.scheduledFor = NULL \/ task.scheduledFor.n <= now

(* the step of the query: judged on the rows the query read *)
SelectsOnlyDue ==
    (cycle.pc = "findDue" /\ cycle'.pc = "task") =>
        /\ cycle'.calledAt = clock
        /\ Len(cycle'.selected) <= BatchLimit
        /\ \A i \in 1..Len(cycle'.selected) :
              /\ HasId(tasks, cycle'.selected[i])
              /\ RowById(tasks, cycle'.selected[i]).userId = cycle.outcome.userId
              /\ DueAt(RowById(tasks, cycle'.selected[i]), clock)
        /\ \A i, j \in 1..Len(cycle'.selected) : cycle'.selected[i] = cycle'.selected[j] => i = j
        /\ Len(cycle'.selected) < BatchLimit =>
              \A k \in 1..Len(tasks) :
                  (tasks[k].userId = cycle.outcome.userId /\ DueAt(tasks[k], clock))
                      => \E i \in 1..Len(cycle'.selected) : cycle'.selected[i] = tasks[k].id

(* the results so far and the tasks still to do are the selection, in order *)
OneResultPerSelected ==
    cycle.pc \in {"task", "awaitTask"} =>
        [i \in 1..Len(cycle.results) |-> cycle.results[i].taskId] \o cycle.dueTasks
            = cycle.selected

OneAtATime ==
    /\ runners["r2"].pc = "idle"
    /\ runners[CycleRunner].pc \notin {"idle", "returned", "threw"} =>
          /\ cycle.pc = "awaitTask"
          /\ runners[CycleRunner].taskId = Head(cycle.dueTasks)

NeverClaimedEarly ==
    \A k \in 1..Len(tasks) :
        (tasks[k].status # "running" /\ tasks'[k].status = "running") =>
            /\ tasks[k].scheduledFor = NULL \/ tasks[k].scheduledFor.n <= clock
            /\ tasks[k].scheduledFor = NULL \/ tasks[k].scheduledFor.n <= cycle.calledAt
            /\ tasks[k].id = Head(cycle.dueTasks)
            /\ tasks'[k].startedAt = JNum(clock)

C26_DueSelection ==
    /\ [](OneResultPerSelected /\ OneAtATime)
    /\ [][SelectsOnlyDue /\ NeverClaimedEarly]_vars

(* a call for u1 at hour 1 returned one result for the one task it selected *)
(* and left u1's follow-up of hour 2 pending                                *)
C26_Witness ==
    /\ cycle.pc = "task" /\ cycle.dueTasks = <<>>
    /\ cycle.calledAt = 1
    /\ Len(cycle.selected) = 1 /\ Len(cycle.results) = 1
    /\ \E k \in 1..Len(tasks) :
          /\ tasks[k].userId = cycle.outcome.userId
          /\ tasks[k].status = "pending"
          /\ tasks[k].scheduledFor # NULL /\ tasks[k].scheduledFor.n > cycle.calledAt
          /\ \A i \in 1..Len(cycle.selected) : cycle.selected[i] # tasks[k].id

(***************************************************************************)
(* C27: for every registered tool, an argument object that the advertised  *)
(* parameter schema rejects, because a required property is missing or     *)
(* because it has a property that is not declared while                    *)
(* additionalProperties is false, is rejected by executeAgentTool with a   *)
(* validation failure and the handler is not invoked.                      *)
(***************************************************************************)
Registered == toolLocals.tool # NULL

ParsedObject == toolLocals.parsedInput.t = "object"

MissingRequired ==
    \E key \in parameters(toolCall.name).required : ~HasKey(toolLocals.parsedInput, key)

UndeclaredProperty ==
    /\ ~parameters(toolCall.name).additionalProperties
    /\ \E key \in Keys(toolLocals.parsedInput) : key \notin parameters(toolCall.name).properties

RejectedUnvalidated ==
    /\ toolReturn # NotReturned
    /\ ~toolReturn.success
    /\ \A i \in 1..Len(toolTrace) : toolTrace[i] # "handler"

(* the validator has judged the parsed arguments *)
Validated == toolPc \in {"invoke", "done"} /\ Registered /\ toolLocals.parsedInput # NULL

C27_Original ==
    (Validated /\ ParsedObject /\ (MissingRequired \/ UndeclaredProperty))
        => (toolPc = "done" /\ RejectedUnvalidated)

(* the half of it that the validator does enforce *)
C27_RequiredEnforced ==
    (Validated /\ ParsedObject /\ MissingRequired) => (toolPc = "done" /\ RejectedUnvalidated)

(* an object with an undeclared property and every required one reaches the handler *)
C27_UndeclaredReachesHandler ==
    /\ toolPc = "done" /\ Registered /\ toolLocals.parsedInput # NULL /\ ParsedObject
    /\ UndeclaredProperty /\ ~MissingRequired
    /\ \E i \in 1..Len(toolTrace) : toolTrace[i] = "handler"
    /\ ~HasKey(toolLocals.validatedInput, "extra")

(***************************************************************************)
(* C28: step selection.  The runner works on the task's pending or running *)
(* step of lowest index when there is one, and creates no step then;       *)
(* otherwise it appends exactly one step, pending, whose index is the      *)
(* number of steps the task has and whose title is the task's summary or   *)
(* "Process task".  The step indices of every task are unique and run      *)
(* from 0 without a gap.                                                   *)
(***************************************************************************)
Outstanding(taskId) == {row \in StepsOf(taskId) : row.status \in {"pending", "running"}}

IndicesOf(taskId) == {row.index : row \in StepsOf(taskId)}

ContiguousFromZero(taskId) ==
    /\ IndicesOf(taskId) = 0..(Cardinality(StepsOf(taskId)) - 1)
    /\ \A a, b \in StepsOf(taskId) : a.index = b.index => a = b

(* the find of lines 206-208, as the step of the runner that loads the task *)
PicksLowestOutstanding ==
    \A r \in Runners :
        (/\ runners[r].pc = "load" /\ runners'[r].pc \notin {"load", "failTask"}
         /\ HasId(tasks, runners[r].taskId)) =>
            /\ steps' = steps
            /\ IF Outstanding(runners[r].taskId) # {}
               THEN /\ runners'[r].pc \in {"startStep", "retrieve"}
                    /\ runners'[r].nextStep \in Outstanding(runners[r].taskId)
                    /\ \A row \in Outstanding(runners[r].taskId) :
                          runners'[r].nextStep.index <= row.index
               ELSE runners'[r].pc = "createStep"

(* a step is created only by a runner that found none outstanding *)
AppendsOneStep ==
    Len(steps') # Len(steps) =>
        \E r \in Runners :
            /\ runners[r].pc = "createStep"
            /\ Outstanding(runners[r].taskId) = {}
            /\ Len(steps') = Len(steps) + 1
            /\ SubSeq(steps', 1, Len(steps)) = steps
            /\ LET row == steps'[Len(steps')]
                   summary == TaskById(runners[r].taskId).summary
               IN  /\ row.taskId = runners[r].taskId
                   /\ row.index = Cardinality(StepsOf(runners[r].taskId))
                   /\ row.title = IF summary # NULL THEN summary.s ELSE "Process task"
                   /\ row.status = "pending"
                   /\ runners'[r].nextStep = row

(* a runner that found an outstanding step never creates one *)
NoStepWhenOutstanding ==
    \A r \in Runners :
        (runners[r].pc \in {"startStep", "retrieve", "model", "tools", "completeStep"}
         /\ runners'[r].taskId = runners[r].taskId)
            => runners'[r].pc # "createStep"

C28_StepSelection ==
    /\ [](\A taskId \in TaskIds : ContiguousFromZero(taskId))
    /\ [][PicksLowestOutstanding /\ AppendsOneStep /\ NoStepWhenOutstanding]_vars

(* the runner of task 1, whose first step was over, works on a second step *)
(* of index 1 titled with the task's summary                               *)
C28_Witness ==
    \E r \in Runners :
        /\ runners[r].pc = "model" /\ runners[r].taskId = 1
        /\ Cardinality(StepsOf(1)) = 2
        /\ runners[r].nextStep.index = 1
        /\ runners[r].nextStep.title = TaskById(1).summary.s
        /\ \E row \in StepsOf(1) : row.index = 0 /\ row.status \in {"completed", "failed"}

(***************************************************************************)
(* C29: tool-call reassembly.  In a round that returns tool calls, the     *)
(* list holds, in the order of their index, one call for each index that   *)
(* was given a name somewhere in the stream and none for the others; its   *)
(* arguments are that index's argument fragments joined in arrival order,  *)
(* or "{}" when there are none; its name and id are the last non-empty     *)
(* ones given for the index, or "tool_call_<index>" when no id was given.  *)
(***************************************************************************)
CallIndices == 0..1

IndexFragments(index) == FragmentsOf(Len(chunksSeen), index)

NamedIndex(index) ==
    \E i \in 1..Len(IndexFragments(index)) :
        IndexFragments(index)[i].name # NULL /\ IndexFragments(index)[i].name.s # ""

(* the place of an index in the list: after the named indices below it *)
PlaceOf(index) == 1 + Cardinality({lower \in CallIndices : lower < index /\ NamedIndex(lower)})

C29_Reassembly ==
    (modelRun.pc = "returned" /\ modelRun.result.type = "tool_calls") =>
        LET calls == modelRun.result.toolCalls
        IN  /\ Len(calls) = Cardinality({index \in CallIndices : NamedIndex(index)})
            /\ \A index \in CallIndices :
                  NamedIndex(index) =>
                      LET call == calls[PlaceOf(index)]
                          fragments == IndexFragments(index)
                          joined == JoinedArguments(fragments)
                      IN  /\ call.type = "function"
                          /\ call.function.arguments = IF joined = "" THEN "{}" ELSE joined
                          /\ call.function.name = LastGiven(fragments, "name", "")
                          /\ call.id = LastGiven(fragments, "id", "tool_call_" \o ToString(index))

(* fragments of the two indices arrived interleaved, index 1 was named and *)
(* given an id twice, and index 0 was named first and completed later      *)
C29_Witness ==
    /\ modelRun.pc = "returned" /\ modelRun.result.type = "tool_calls"
    /\ Len(modelRun.result.toolCalls) = 2
    /\ modelRun.result.toolCalls[1].id = "call_a"
    /\ modelRun.result.toolCalls[1].function.arguments = "{\"to\": "
    /\ modelRun.result.toolCalls[2].id = "call_c"
    /\ modelRun.result.toolCalls[2].function.name = "searchKnowledge"
    /\ modelRun.result.toolCalls[2].function.arguments = "{\"query\":\"x\"}"
    /\ Len(chunksSeen) = 3
    /\ chunksSeen[2].tool_calls = <<Fragment(JNum(1), JStr("call_b"), NULL, JStr(""))>>

(* an index that was never named leaves no call, and an index without an   *)
(* id or arguments gets the defaults                                       *)
C29_WitnessDefaults ==
    /\ modelRun.pc = "returned" /\ modelRun.result.type = "tool_calls"
    /\ ~NamedIndex(0) /\ IndexFragments(0) # <<>>
    /\ Len(modelRun.result.toolCalls) = 1
    /\ modelRun.result.toolCalls[1].id = "tool_call_1"
    /\ modelRun.result.toolCalls[1].function.arguments = "{}"

(***************************************************************************)
(* Claims about the events of the CRM upsert tool.                         *)
(***************************************************************************)
ReturnedCalls == {k \in 1..Len(crmCalls) : crmCalls[k].status = "returned"}

Triggered ==
    {i \in 1..Len(instructions) :
        /\ instructions[i].userId = CrmUser
        /\ instructions[i].status = "active"
        /\ instructions[i].triggers # NULL
        /\ \E t \in 1..Len(instructions[i].triggers.items) :
              instructions[i].triggers.items[t] = "hubspot.contact_updated"}

TasksAdded == {tasks'[i] : i \in (Len(tasks) + 1)..Len(tasks')}

(* the evaluation inside the call: one pending task per triggered          *)
(* instruction, or nothing at all when it fails; the call returns          *)
EvaluatesInsideCall ==
    (crmCall.pc = "evaluate" /\ crmCall'.pc # "evaluate") =>
        /\ crmCall'.pc = "returned"
        /\ Len(crmCall'.events) = 1
        /\ crmCall'.events[1].userId = CrmUser
        /\ crmCall'.events[1].event.type = "hubspot.contact_updated"
        /\ GetKey(crmCall'.events[1].event.payload, "contactId") = JStr(crmCall.payloadId)
        /\ SubSeq(tasks', 1, Len(tasks)) = tasks
        /\ IF crmCall'.evaluated
           THEN /\ Len(tasks') = Len(tasks) + Cardinality(Triggered)
                /\ \A i \in Triggered :
                      \E task \in TasksAdded :
                          /\ task.instructionId = JNum(instructions[i].id)
                          /\ task.userId = CrmUser
                          /\ task.status = "pending"
           ELSE tasks' = tasks /\ evaluations' = evaluations

(* tasks come from the evaluation step only *)
TasksOnlyByEvaluation == tasks' # tasks => crmCall.pc = "evaluate"

C30_WitnessSwallowed ==
    \E k \in ReturnedCalls : crmCalls[k].events = <<>> /\ ~crmCalls[k].persisted


====
